---- MODULE Spec2Model ----
(***************************************************************************)
(* TrustChain: trust score engine (src/src/trust_score.py), receipt ledger *)
(* (src/src/core.py), traffic-light renderer (src/src/traffic_light.py)    *)
(* and the callers that drive them (src/cli.py, src/demo/streamlit_app.py, *)
(* src/watchdog.py).                                                       *)
(*                                                                         *)
(* Python values are tagged records: None, bool, int, an int beyond the    *)
(* range of a float ("bigint"), float, str, list and dict.  A float is an  *)
(* integer count of 1/Scale units; a str is a sequence of one-character    *)
(* strings; a dict is a function from key strings to values.               *)
(***************************************************************************)
EXTENDS Integers, Sequences, FiniteSets, TLC

VARIABLES
    receipt,    \* the receipt being scored / rendered (a Python dict)
    pc,         \* position of the single thread of control
    result,     \* outcome of the last compute_trust_score
    score,      \* integer handed to get_trust_level / render_traffic_light
    level,      \* the trust level get_trust_level returned
    has_blake3, \* HAS_BLAKE3: whether the blake3 module was importable
    clock,      \* the wall clock datetime.now() reads
    stdout,     \* lines written to the live output stream
    stderr,     \* lines written to the diagnostic stream
    ledger,     \* lines of the ledger file receipts.jsonl
    emit,       \* the emit_receipt call in progress or last finished
    ret,        \* the record the last emit_receipt returned
    caller,     \* the function that called the scorer / renderer
    exc,        \* the exception propagating, "none" if none
    stop,       \* arguments of the stoprule_* function being run
    shown,      \* what the caller reported for the call
    callStart,  \* length of stdout when the current call began
    config,     \* the ScenarioConfig run_scenario was given
    state,      \* the SimState of the run, with the loop's locals
    items,      \* the list handed to merkle
    hashes,     \* merkle's list of node fingerprints
    input,      \* the input handed to dual_hash
    history,    \* historical_scores of detect_trust_anomaly
    groups,     \* scores_by_domain of check_trust_bias
    returned    \* the value the function under study returned

callvars0 == <<receipt, result, score, level>>
iovars == <<has_blake3, clock, stdout, stderr, ledger>>
ctlvars == <<caller, exc, stop, shown, callStart>>
auxvars == <<config, state, items, hashes, input, history, groups,
            returned>>

vars == <<receipt, pc, result, score, level, has_blake3, clock, stdout,
          stderr, ledger, emit, ret, caller, exc, stop, shown, callStart,
          config, state, items, hashes, input, history, groups, returned>>

-----------------------------------------------------------------------------
(* Bounds of the model *)

\* at most this many recognised fields are present in one receipt
MaxFields == 3

\* longest sources list
MaxSources == 5

\* no call starts once stdout holds this many lines
MaxLines == 2

\* the last reading of the clock
MaxClock == 1

\* most cycles of a scenario
MaxCycles == 2

\* most calls of one run in which the interpreter raises
MaxFaults == 1

\* most candidates a run has processed before the one under study
MaxProcessed == 2

\* most items of a list handed to merkle
MaxItems == 5

\* most bytes, and most characters, of an input handed to dual_hash
MaxInput == 2

\* most scores of a history handed to detect_trust_anomaly
MaxHistory == 11

\* most domains of a dict handed to check_trust_bias
MaxGroups == 3

\* lines of a receipts file
MaxFileLines == 2

-----------------------------------------------------------------------------
(* Python values *)

\* resolution of the float model: a float x is the integer x * Scale
Scale == 10000

PyNone == [t |-> "none"]
PyBool(b) == [t |-> "bool", b |-> b]
PyInt(i) == [t |-> "int", i |-> i]
PyBigInt == [t |-> "bigint"]
PyFloat(f) == [t |-> "float", f |-> f]
PyStr(s) == [t |-> "str", s |-> s]
PyList(l) == [t |-> "list", l |-> l]
PyDict(d) == [t |-> "dict", d |-> d]

EmptyDict == [k \in {} |-> PyNone]

\* dict.get(key, default)
Get(d, key, default) == IF key \in DOMAIN d THEN d[key] ELSE default

\* isinstance(v, int): bool is a subclass of int
IsInt(v) == v.t \in {"int", "bool", "bigint"}

\* a stand-in, larger than every threshold, for the magnitude of a bigint
BigMagnitude == 1000000000

\* the integer an int-like value compares as
IntOf(v) ==
    IF v.t = "int" THEN v.i
    ELSE IF v.t = "bool" THEN (IF v.b THEN 1 ELSE 0)
    ELSE BigMagnitude

\* bool(v)
Truthy(v) ==
    IF v.t = "none" THEN FALSE
    ELSE IF v.t = "bool" THEN v.b
    ELSE IF v.t = "int" THEN v.i # 0
    ELSE IF v.t = "bigint" THEN TRUE
    ELSE IF v.t = "float" THEN v.f # 0
    ELSE IF v.t = "str" THEN v.s # <<>>
    ELSE IF v.t = "list" THEN v.l # <<>>
    ELSE DOMAIN v.d # {}

Digits == {"0", "1", "2", "3", "4", "5", "6", "7", "8", "9"}

DigitVal(c) ==
    CASE c = "0" -> 0 [] c = "1" -> 1 [] c = "2" -> 2 [] c = "3" -> 3
      [] c = "4" -> 4 [] c = "5" -> 5 [] c = "6" -> 6 [] c = "7" -> 7
      [] c = "8" -> 8 [] c = "9" -> 9

RECURSIVE DecimalVal(_)
DecimalVal(s) ==
    IF s = <<>> THEN 0
    ELSE 10 * DecimalVal(SubSeq(s, 1, Len(s) - 1)) + DigitVal(s[Len(s)])

\* float(v): the converted value, or the exception float() raises
ToFloat(v) ==
    IF v.t = "float" THEN [exc |-> "none", f |-> v.f]
    ELSE IF v.t = "int" THEN [exc |-> "none", f |-> v.i * Scale]
    ELSE IF v.t = "bool" THEN [exc |-> "none", f |-> IF v.b THEN Scale ELSE 0]
    ELSE IF v.t = "bigint" THEN [exc |-> "OverflowError", f |-> 0]
    ELSE IF v.t = "str" THEN
        IF v.s # <<>> /\ \A i \in 1..Len(v.s) : v.s[i] \in Digits
        THEN [exc |-> "none", f |-> DecimalVal(v.s) * Scale]
        ELSE [exc |-> "ValueError", f |-> 0]
    ELSE [exc |-> "TypeError", f |-> 0]

-----------------------------------------------------------------------------
(* Signal extraction, src/src/trust_score.py *)

extract_sources(r) ==
    LET source_count == Get(r, "source_count", PyNone)
        sources == Get(r, "sources", PyNone)
        payload == Get(r, "payload", PyDict(EmptyDict))
    IN  IF IsInt(source_count) THEN IntOf(source_count)
        ELSE IF sources.t = "list" THEN Len(sources.l)
        ELSE IF payload.t = "dict" THEN
            LET psc == Get(payload.d, "source_count", PyNone)
                psrc == Get(payload.d, "sources", PyNone)
            IN  IF IsInt(psc) THEN IntOf(psc)
                ELSE IF psrc.t = "list" THEN Len(psrc.l)
                ELSE 0
        ELSE 0

\* str(v) of the values an approver field holds in this model
StrOf(v) == IF v.t = "str" THEN v.s ELSE <<"?">>

\* the accountable of a raci value, PyNone unless raci is a dict that has one
Accountable(raci) ==
    IF raci.t = "dict" THEN Get(raci.d, "accountable", PyNone) ELSE PyNone

\* Optional[str]: None, or the str of the approver's name
extract_approver(r) ==
    LET approver == Get(r, "approver", PyNone)
        raci == Get(r, "raci", PyDict(EmptyDict))
        payload == Get(r, "payload", PyDict(EmptyDict))
    IN  IF Truthy(approver) THEN PyStr(StrOf(approver))
        ELSE IF Truthy(Accountable(raci)) THEN PyStr(StrOf(Accountable(raci)))
        ELSE IF payload.t = "dict" THEN
            LET papp == Get(payload.d, "approver", PyNone)
                praci == Get(payload.d, "raci", PyDict(EmptyDict))
            IN  IF Truthy(papp) THEN PyStr(StrOf(papp))
                ELSE IF Truthy(Accountable(praci))
                     THEN PyStr(StrOf(Accountable(praci)))
                ELSE PyNone
        ELSE PyNone

\* the payload branch of extract_confidence: only [0.0, 1.0] is accepted
PayloadConfidence(r) ==
    LET payload == Get(r, "payload", PyDict(EmptyDict))
    IN  IF payload.t = "dict" THEN
            LET confidence == Get(payload.d, "confidence", PyNone)
                conv == ToFloat(confidence)
            IN  IF confidence.t = "none" THEN [exc |-> "none", conf |-> PyNone]
                ELSE IF conv.exc = "OverflowError"
                     THEN [exc |-> "OverflowError", conf |-> PyNone]
                ELSE IF conv.exc = "none" /\ 0 <= conv.f /\ conv.f <= Scale
                     THEN [exc |-> "none", conf |-> PyFloat(conv.f)]
                ELSE [exc |-> "none", conf |-> PyNone]
        ELSE [exc |-> "none", conf |-> PyNone]

\* Optional[float], or the exception that escapes the except clause
extract_confidence(r) ==
    LET confidence == Get(r, "confidence", PyNone)
        conv == ToFloat(confidence)
    IN  IF confidence.t = "none" THEN PayloadConfidence(r)
        ELSE IF conv.exc = "OverflowError"
             THEN [exc |-> "OverflowError", conf |-> PyNone]
        ELSE IF conv.exc = "none" /\ 0 <= conv.f /\ conv.f <= Scale
             THEN [exc |-> "none", conf |-> PyFloat(conv.f)]
        ELSE IF conv.exc = "none" /\ 0 <= conv.f /\ conv.f <= 100 * Scale
             THEN [exc |-> "none", conf |-> PyFloat(conv.f \div 100)]
        ELSE PayloadConfidence(r)

check_monte_carlo(r) ==
    LET payload == Get(r, "payload", PyDict(EmptyDict))
    IN  \/ Truthy(Get(r, "monte_carlo_validated", PyNone))
        \/ Truthy(Get(r, "monte_carlo_passed", PyNone))
        \/ Truthy(Get(r, "simulation_validated", PyNone))
        \/ /\ payload.t = "dict"
           /\ \/ Truthy(Get(payload.d, "monte_carlo_validated", PyNone))
              \/ Truthy(Get(payload.d, "monte_carlo_passed", PyNone))

check_human_verified(r) ==
    LET payload == Get(r, "payload", PyDict(EmptyDict))
    IN  \/ Truthy(Get(r, "human_verified", PyNone))
        \/ Truthy(Get(r, "intervention_receipt", PyNone))
        \/ Truthy(Get(r, "human_approved", PyNone))
        \/ /\ payload.t = "dict"
           /\ \/ Truthy(Get(payload.d, "human_verified", PyNone))
              \/ Truthy(Get(payload.d, "intervention_receipt", PyNone))

has_raci_chain(r) ==
    LET raci == Get(r, "raci", PyDict(EmptyDict))
        payload == Get(r, "payload", PyDict(EmptyDict))
    IN  IF raci.t = "dict" THEN Truthy(Get(raci.d, "accountable", PyNone))
        ELSE IF payload.t = "dict" THEN
            LET praci == Get(payload.d, "raci", PyDict(EmptyDict))
            IN  IF praci.t = "dict"
                THEN Truthy(Get(praci.d, "accountable", PyNone))
                ELSE FALSE
        ELSE FALSE

-----------------------------------------------------------------------------
(* Scoring, src/src/trust_score.py *)

BASE_SCORE == 50
SCORE_GREEN_MIN == 85
SCORE_YELLOW_MIN == 60

Min(a, b) == IF a <= b THEN a ELSE b

\* the source thresholds with strict comparisons
SourcePointsStrict(source_count) ==
    IF source_count > 5 THEN 20
    ELSE IF source_count > 3 THEN 10
    ELSE IF source_count > 1 THEN 5
    ELSE 0

SourcePoints(source_count) ==
    IF source_count >= 5 THEN 20
    ELSE IF source_count >= 3 THEN 10
    ELSE IF source_count >= 1 THEN 5
    ELSE 0

ApproverPoints(r) ==
    IF Truthy(extract_approver(r))
    THEN 15 + (IF has_raci_chain(r) THEN 10 ELSE 0)
    ELSE 0

\* thresholds 0.90, 0.75, 0.50 in units of 1/Scale
ConfidencePoints(conf) ==
    IF conf.t = "none" THEN 0
    ELSE IF conf.f * 100 >= 90 * Scale THEN 20
    ELSE IF conf.f * 100 >= 75 * Scale THEN 10
    ELSE IF conf.f * 100 >= 50 * Scale THEN 5
    ELSE 0

\* the sum of the base score and the six signal contributions
RawScore(r) ==
    BASE_SCORE
    + SourcePoints(extract_sources(r))
    + ApproverPoints(r)
    + ConfidencePoints(extract_confidence(r).conf)
    + (IF check_monte_carlo(r) THEN 15 ELSE 0)
    + (IF check_human_verified(r) THEN 20 ELSE 0)

\* the cap without its bound
CapScoreUncapped(s) == s

\* "Cap at 100"
CapScore(s) == Min(100, s)

\* the result of a call: the exception that leaves it ("none" on return)
\* and the score; an out-of-range score takes stoprule_trust_score_invalid
compute_trust_score(r) ==
    LET s == CapScore(RawScore(r))
    IN  IF extract_confidence(r).exc # "none"
        THEN [exc |-> extract_confidence(r).exc, score |-> 0]
        ELSE IF s < 0 \/ s > 100 THEN [exc |-> "StopRule", score |-> s]
        ELSE [exc |-> "none", score |-> s]

\* the comparison of the level thresholds made strict
get_trust_level_strict(s) ==
    IF s > SCORE_GREEN_MIN THEN "GREEN"
    ELSE IF s > SCORE_YELLOW_MIN THEN "YELLOW"
    ELSE "RED"

get_trust_level(s) ==
    IF s >= SCORE_GREEN_MIN THEN "GREEN"
    ELSE IF s >= SCORE_YELLOW_MIN THEN "YELLOW"
    ELSE "RED"

-----------------------------------------------------------------------------
(* Text, src/src/traffic_light.py *)

TxtAiChecked ==
    <<"A", "I", " ", "c", "h", "e", "c", "k", "e", "d", " ">>

TxtSource ==
    <<" ", "s", "o", "u", "r", "c", "e">>

TxtPluralS ==
    <<"s">>

TxtSep ==
    <<",", " ">>

TxtApproved ==
    <<" ", "a", "p", "p", "r", "o", "v", "e", "d">>

TxtNoApprover ==
    <<"n", "o", " ", "a", "p", "p", "r", "o", "v", "e", "r", " ", "a", "s",
    "s", "i", "g", "n", "e", "d">>

TxtPctConfidence ==
    <<"%", " ", "c", "o", "n", "f", "i", "d", "e", "n", "c", "e">>

TxtConfidenceUnknown ==
    <<"c", "o", "n", "f", "i", "d", "e", "n", "c", "e", " ", "u", "n", "k",
    "n", "o", "w", "n">>

TxtStop ==
    <<".">>

TxtBoth ==
    <<"V", "a", "l", "i", "d", "a", "t", "e", "d", " ", "a", "c", "r", "o",
    "s", "s", " ", "s", "c", "e", "n", "a", "r", "i", "o", "s", " ", "a",
    "n", "d", " ", "h", "u", "m", "a", "n", "-", "v", "e", "r", "i", "f",
    "i", "e", "d", ".">>

TxtMonteCarlo ==
    <<"V", "a", "l", "i", "d", "a", "t", "e", "d", " ", "a", "c", "r", "o",
    "s", "s", " ", "s", "i", "m", "u", "l", "a", "t", "i", "o", "n", " ",
    "s", "c", "e", "n", "a", "r", "i", "o", "s", ".">>

TxtHuman ==
    <<"H", "u", "m", "a", "n", "-", "v", "e", "r", "i", "f", "i", "e", "d",
    " ", "d", "e", "c", "i", "s", "i", "o", "n", ".">>

TxtAutomated ==
    <<"A", "u", "t", "o", "m", "a", "t", "e", "d", " ", "d", "e", "c", "i",
    "s", "i", "o", "n", " ", "(", "u", "n", "v", "a", "l", "i", "d", "a",
    "t", "e", "d", ")", ".">>

NameHashimoto ==
    <<"C", "O", "L", " ", "H", "a", "s", "h", "i", "m", "o", "t", "o">>

CRYPTO_TERMS ==
    <<<<"s", "h", "a", "2", "5", "6">>,
      <<"b", "l", "a", "k", "e", "3">>,
      <<"m", "e", "r", "k", "l", "e">>,
      <<"h", "a", "s", "h">>,
      <<"d", "u", "a", "l", "_", "h", "a", "s", "h">>,
      <<"p", "a", "y", "l", "o", "a", "d", "_", "h", "a", "s", "h">>>>

UpperCase ==
    <<"A", "B", "C", "D", "E", "F", "G", "H", "I", "J", "K", "L", "M", "N",
      "O", "P", "Q", "R", "S", "T", "U", "V", "W", "X", "Y", "Z">>

LowerCase ==
    <<"a", "b", "c", "d", "e", "f", "g", "h", "i", "j", "k", "l", "m", "n",
      "o", "p", "q", "r", "s", "t", "u", "v", "w", "x", "y", "z">>

\* str.lower()
Lower(s) ==
    [i \in 1..Len(s) |->
        IF \E j \in 1..26 : UpperCase[j] = s[i]
        THEN LowerCase[CHOOSE j \in 1..26 : UpperCase[j] = s[i]]
        ELSE s[i]]

Whitespace == {" ", "\t", "\n"}

\* len(s.split()): the number of maximal runs of non-whitespace
WordCount(s) ==
    Cardinality({i \in 1..Len(s) :
                    /\ s[i] \notin Whitespace
                    /\ (i = 1 \/ s[i - 1] \in Whitespace)})

\* term in s
Contains(s, term) ==
    \E i \in 1..(Len(s) - Len(term) + 1) :
        SubSeq(s, i, i + Len(term) - 1) = term

DigitChar(d) ==
    CASE d = 0 -> "0" [] d = 1 -> "1" [] d = 2 -> "2" [] d = 3 -> "3"
      [] d = 4 -> "4" [] d = 5 -> "5" [] d = 6 -> "6" [] d = 7 -> "7"
      [] d = 8 -> "8" [] d = 9 -> "9"

RECURSIVE NatStr(_)
NatStr(n) ==
    IF n < 10 THEN <<DigitChar(n)>>
    ELSE NatStr(n \div 10) \o <<DigitChar(n % 10)>>

\* str(n) of an int
IntStr(n) == IF n < 0 THEN <<"-">> \o NatStr(0 - n) ELSE NatStr(n)

\* a name of n one-letter words
WordyName(n) == [i \in 1..(2 * n - 1) |-> IF i % 2 = 1 THEN "a" ELSE " "]

-----------------------------------------------------------------------------
(* Rendering, src/src/traffic_light.py *)

SUMMARY_WORD_LIMIT == 50

select_emoji(s) ==
    IF s >= SCORE_GREEN_MIN THEN "green"
    ELSE IF s >= SCORE_YELLOW_MIN THEN "yellow"
    ELSE "red"

\* (line_1, line_2); extract_confidence may raise inside
build_summary(r) ==
    LET source_count == extract_sources(r)
        approver == extract_approver(r)
        ec == extract_confidence(r)
        monte_carlo == check_monte_carlo(r)
        human_verified == check_human_verified(r)
        source_text ==
            IntStr(source_count) \o TxtSource
            \o (IF source_count # 1 THEN TxtPluralS ELSE <<>>)
        approver_text ==
            IF Truthy(approver) THEN approver.s \o TxtApproved
            ELSE TxtNoApprover
        confidence_text ==
            IF ec.conf.t # "none"
            THEN IntStr((ec.conf.f * 100) \div Scale) \o TxtPctConfidence
            ELSE TxtConfidenceUnknown
        line_1 == TxtAiChecked \o source_text \o TxtSep \o approver_text
                  \o TxtSep \o confidence_text \o TxtStop
        line_2 == IF monte_carlo /\ human_verified THEN TxtBoth
                  ELSE IF monte_carlo THEN TxtMonteCarlo
                  ELSE IF human_verified THEN TxtHuman
                  ELSE TxtAutomated
    IN  [exc |-> ec.exc, line_1 |-> line_1, line_2 |-> line_2]

\* the word limit test with the limit itself rejected
TooLongStrict(word_count) == word_count >= SUMMARY_WORD_LIMIT

\* "if word_count > 50"
TooLong(word_count) == word_count > SUMMARY_WORD_LIMIT

NoStop == [metric |-> "none", baseline |-> 0, actual |-> 0]

\* the two validations at the end of render_traffic_light: the stop rule
\* they select (metric "none" when both pass) with the display
validate_summary(output, word_count, summary_lower) ==
    IF TooLong(word_count)
    THEN [exc |-> "none",
          stop |-> [metric |-> "summary_word_count",
                    baseline |-> 50 * Scale,
                    actual |-> word_count * Scale],
          output |-> output]
    ELSE IF \E i \in 1..Len(CRYPTO_TERMS) :
                Contains(summary_lower, CRYPTO_TERMS[i])
    THEN [exc |-> "none",
          stop |-> [metric |-> "crypto_in_summary",
                    baseline |-> 0,
                    actual |-> Scale],
          output |-> output]
    ELSE [exc |-> "none", stop |-> NoStop, output |-> output]

\* render_traffic_light once build_summary has returned or raised
render_summary(s, summary) ==
    LET summary_text == summary.line_1 \o <<" ">> \o summary.line_2
    IN  IF summary.exc # "none"
        THEN [exc |-> summary.exc, stop |-> NoStop, output |-> <<>>]
        ELSE validate_summary([emoji |-> select_emoji(s),
                               trust_level |-> get_trust_level(s),
                               line_1 |-> summary.line_1,
                               line_2 |-> summary.line_2,
                               score |-> s],
                              WordCount(summary_text),
                              Lower(summary_text))

\* the result of a call: the exception raised inside ("none" otherwise),
\* the stop rule the checks select (metric "none" when they pass) and the
\* display
render_traffic_light(s, r) == render_summary(s, build_summary(r))

-----------------------------------------------------------------------------
(* Receipt ledger, src/src/core.py *)

\* every key of an emitted record, in the order sort_keys=True gives
KeyOrder ==
    <<"action", "actual", "baseline", "classification", "context",
      "cycles_completed", "delta", "disparity", "error_message",
      "error_type", "groups", "message", "metric", "metrics",
      "mitigation_action", "payload_hash", "receipt_type", "scenario_name",
      "status", "success", "tenant_id", "threshold", "ts", "violations">>

\* json.dumps(d, sort_keys=True): the (key, value) pairs in key order
json_dumps(d) ==
    LET IsKey(k) == k \in DOMAIN d
        keys == SelectSeq(KeyOrder, IsKey)
    IN  [i \in 1..Len(keys) |-> <<keys[i], d[keys[i]]>>]

\* a digest, modelled as collision-free: the algorithm and the input
Digest(algorithm, data) == <<algorithm, data>>

\* "sha256_hex:blake3_hex"; the second slot is SHA256 again without blake3
dual_hash(data, blake3_available) ==
    [t |-> "hash",
     sha256 |-> Digest("sha256", data),
     blake3 |-> IF blake3_available THEN Digest("blake3", data)
                ELSE Digest("sha256", data)]

\* datetime.now(timezone.utc).isoformat().replace('+00:00', 'Z')
IsoFormat(now) == <<"T">> \o NatStr(now) \o <<"Z">>

TxtDefault == <<"d", "e", "f", "a", "u", "l", "t">>
TxtAnomaly == <<"a", "n", "o", "m", "a", "l", "y">>
TxtError == <<"e", "r", "r", "o", "r">>
TxtTest == <<"t", "e", "s", "t">>
TxtViolation == <<"v", "i", "o", "l", "a", "t", "i", "o", "n">>
TxtHalt == <<"h", "a", "l", "t">>
TxtPass == <<"p", "a", "s", "s">>
TxtAcme == <<"a", "c", "m", "e">>
TxtForged == <<"f", "o", "r", "g", "e", "d">>
TxtTestMessage ==
    <<"T", "r", "u", "s", "t", "C", "h", "a", "i", "n", " ", "C", "L",
    "I", " ", "t", "e", "s", "t", " ", "r", "e", "c", "e", "i", "p", "t">>
TxtTrustScoreRange ==
    <<"t", "r", "u", "s", "t", "_", "s", "c", "o", "r", "e", "_", "r",
    "a", "n", "g", "e">>
TxtSummaryWordCount ==
    <<"s", "u", "m", "m", "a", "r", "y", "_", "w", "o", "r", "d", "_",
    "c", "o", "u", "n", "t">>
TxtCryptoInSummary ==
    <<"c", "r", "y", "p", "t", "o", "_", "i", "n", "_", "s", "u", "m",
    "m", "a", "r", "y">>

\* the record emit_receipt builds: the four stamped keys, then **data
Receipt(receipt_type, data, now, blake3_available) ==
    data @@ [receipt_type |-> PyStr(receipt_type),
             ts |-> PyStr(IsoFormat(now)),
             tenant_id |-> Get(data, "tenant_id", PyStr(TxtDefault)),
             payload_hash |-> dual_hash(json_dumps(data), blake3_available)]

\* open(ledger_path, 'w'): the file truncated before the write
LedgerOverwrite(file, line) == <<line>>

\* open(ledger_path, 'a'), f.write(receipt_json + '\n')
LedgerWrite(file, line) == Append(file, line)

MetricText(metric) ==
    IF metric = "trust_score_range" THEN TxtTrustScoreRange
    ELSE IF metric = "summary_word_count" THEN TxtSummaryWordCount
    ELSE TxtCryptoInSummary

\* the payload emit_anomaly hands to emit_receipt
AnomalyPayload(metric, baseline, actual, classification, action) ==
    [tenant_id |-> PyStr(TxtDefault),
     metric |-> PyStr(metric),
     baseline |-> PyFloat(baseline),
     actual |-> PyFloat(actual),
     delta |-> PyFloat(actual - baseline),
     classification |-> PyStr(classification),
     action |-> PyStr(action)]

-----------------------------------------------------------------------------
(* Receipts: the inputs of the scoring specification *)

NameSmith == <<"C", "P", "T", " ", "S", "m", "i", "t", "h">>
TextAbc == <<"a", "b", "c">>

SourceNames(n) == [i \in 1..n |-> PyStr(<<"s">>)]

SignalKeys == {"source_count", "sources", "approver", "raci", "confidence",
               "monte_carlo_validated", "monte_carlo_passed",
               "simulation_validated", "human_verified",
               "intervention_receipt", "human_approved"}

RaciVals == {PyStr(TextAbc),
             PyDict(EmptyDict),
             PyDict([k \in {"accountable"} |-> PyStr(<<>>)]),
             PyDict([k \in {"accountable"} |-> PyStr(NameSmith)])}

\* 0.45, 0.50, 0.75, 0.90, -0.5 and 150.0 as floats, 60 as an int (a
\* percentage), a non-numeric str and an int too large for a float
ConfidenceVals == {PyFloat(4500), PyFloat(5000), PyFloat(7500), PyFloat(9000),
                   PyFloat(0 - 5000), PyFloat(150 * Scale), PyInt(60),
                   PyStr(TextAbc), PyBigInt}

\* the values a recognised field takes in the receipts of the model
FieldVals(key) ==
    IF key = "source_count"
    THEN {PyInt(0 - 1), PyInt(2), PyInt(5), PyStr(TextAbc)}
    ELSE IF key = "sources"
    THEN {PyList(SourceNames(n)) : n \in 0..MaxSources} \cup {PyStr(TextAbc)}
    ELSE IF key = "approver" THEN {PyStr(<<>>), PyStr(NameSmith)}
    ELSE IF key = "raci" THEN RaciVals
    ELSE IF key = "confidence" THEN ConfidenceVals
    ELSE {PyBool(TRUE)}

\* every dict whose keys are exactly S, with values from FieldVals
RECURSIVE DictsOver(_)
DictsOver(S) ==
    IF S = {} THEN {EmptyDict}
    ELSE LET k == CHOOSE x \in S : TRUE
         IN  {(k :> v) @@ d : v \in FieldVals(k), d \in DictsOver(S \ {k})}

KeySets(n) == {S \in SUBSET SignalKeys : Cardinality(S) <= n}

\* the payload values put under a top level of the key set S: absent,
\* not a mapping, or a mapping with fields
PayloadKeySets(S) ==
    {Q \in KeySets(MaxFields - Cardinality(S)) : Q # {}}

\* receipt is a receipt with at most MaxFields recognised fields, at top
\* level or under payload; a payload that is not a mapping counts as one
IsReceipt(r) ==
    \E S \in KeySets(MaxFields) :
        \E top \in DictsOver(S) :
            \/ r = top
            \/ /\ Cardinality(S) < MaxFields
               /\ r = top @@ ("payload" :> PyStr(TextAbc))
            \/ \E P \in PayloadKeySets(S) :
                   \E nested \in DictsOver(P) :
                       r = top @@ ("payload" :> PyDict(nested))

-----------------------------------------------------------------------------
(* States shared by the specifications *)

\* the emit_receipt call in progress or last finished
NoEmit ==
    [status |-> "none", receipt_type |-> <<>>, data |-> EmptyDict,
     now |-> 0, rec |-> EmptyDict, line |-> <<>>, ledger0 |-> <<>>,
     ret_pc |-> "idle"]

NewEmit(receipt_type, data, ret_pc) ==
    [status |-> "called", receipt_type |-> receipt_type, data |-> data,
     now |-> 0, rec |-> EmptyDict, line |-> <<>>, ledger0 |-> <<>>,
     ret_pc |-> ret_pc]

NoShown == [kind |-> "none", exc |-> "none"]

\* no scenario, no Merkle tree, no detector call
NoConfig == [name |-> "none"]
NoState == [cycle |-> 0]
NoReturn == [kind |-> "none"]

AuxIdle ==
    /\ config = NoConfig
    /\ state = NoState
    /\ items = <<>>
    /\ hashes = <<>>
    /\ input = [kind |-> "none"]
    /\ history = <<>>
    /\ groups = <<>>
    /\ returned = NoReturn

\* nothing emitted, no call in progress
Quiescent ==
    /\ has_blake3 = TRUE
    /\ clock = 0
    /\ stdout = <<>>
    /\ stderr = <<>>
    /\ ledger = <<>>
    /\ emit = NoEmit
    /\ ret = EmptyDict
    /\ caller = "none"
    /\ exc = "none"
    /\ stop = NoStop
    /\ shown = NoShown
    /\ callStart = 0
    /\ AuxIdle

-----------------------------------------------------------------------------
(* Scoring specification: compute_trust_score applied to every receipt *)

NoResult == [exc |-> "none", score |-> 0 - 1]

InitScore ==
    /\ IsReceipt(receipt)
    /\ pc = "score"
    /\ result = NoResult
    /\ score = 0
    /\ level = "none"
    /\ Quiescent

\* score = compute_trust_score(receipt)
Score ==
    /\ UNCHANGED auxvars
    /\ pc = "score"
    /\ result' = compute_trust_score(receipt)
    /\ score' = result'.score
    /\ pc' = "scored"
    /\ UNCHANGED <<receipt, level, iovars, emit, ret, ctlvars>>

NextScore == Score

SpecScore == InitScore /\ [][NextScore]_vars

-----------------------------------------------------------------------------
(* Level specification: get_trust_level applied to every score *)

\* the largest trust score
MAX_SCORE == 100

InitLevel ==
    /\ receipt = EmptyDict
    /\ pc = "level"
    /\ result = NoResult
    /\ score \in 0..MAX_SCORE
    /\ level = "none"
    /\ Quiescent

\* level = get_trust_level(score)
Level ==
    /\ UNCHANGED auxvars
    /\ pc = "level"
    /\ level' = get_trust_level(score)
    /\ pc' = "levelled"
    /\ UNCHANGED <<receipt, result, score, iovars, emit, ret, ctlvars>>

NextLevel == Level

SpecLevel == InitLevel /\ [][NextLevel]_vars

-----------------------------------------------------------------------------
(* Expected-level reference of the harness, src/sim/sim.py *)

\* len(receipt.get("sources", [])): the length, or TypeError
ExpectedSources(r) ==
    LET sources == Get(r, "sources", PyList(<<>>))
    IN  IF sources.t = "list" THEN [exc |-> "none", n |-> Len(sources.l)]
        ELSE IF sources.t = "str" THEN [exc |-> "none", n |-> Len(sources.s)]
        ELSE IF sources.t = "dict"
             THEN [exc |-> "none", n |-> Cardinality(DOMAIN sources.d)]
        ELSE [exc |-> "TypeError", n |-> 0]

\* a reference that looks for the approver at the top level of the receipt
ExpectedApprover_top(r) ==
    [exc |-> "none", b |-> Truthy(Get(r, "approver", PyNone))]

\* bool(receipt.get("raci", {}).get("accountable")), or AttributeError
ExpectedApprover(r) ==
    LET raci == Get(r, "raci", PyDict(EmptyDict))
    IN  IF raci.t = "dict"
        THEN [exc |-> "none",
              b |-> Truthy(Get(raci.d, "accountable", PyNone))]
        ELSE [exc |-> "AttributeError", b |-> FALSE]

\* "confidence and confidence >= t" for t = 0.90, 0.75, 0.50 on the raw
\* value: the points, or TypeError when the value does not compare
ExpectedConfidence(r) ==
    LET confidence == Get(r, "confidence", PyNone)
    IN  IF ~Truthy(confidence) THEN [exc |-> "none", pts |-> 0]
        ELSE IF confidence.t \in {"bigint", "int", "bool"}
             THEN [exc |-> "none", pts |-> 20]
        ELSE IF confidence.t = "float"
             THEN [exc |-> "none", pts |-> ConfidencePoints(confidence)]
        ELSE [exc |-> "TypeError", pts |-> 0]

\* the level the reference expects, or the exception it raises
get_expected_level(r) ==
    LET es == ExpectedSources(r)
        ea == ExpectedApprover(r)
        ec == ExpectedConfidence(r)
        monte_carlo == Truthy(Get(r, "monte_carlo_validated", PyBool(FALSE)))
        human_verified == Truthy(Get(r, "human_verified", PyBool(FALSE)))
        expected_score ==
            Min(100, 50 + SourcePoints(es.n)
                        + (IF ea.b THEN 15 + 10 ELSE 0)
                        + ec.pts
                        + (IF monte_carlo THEN 15 ELSE 0)
                        + (IF human_verified THEN 20 ELSE 0))
    IN  IF es.exc # "none" THEN [exc |-> es.exc, level |-> "none"]
        ELSE IF ea.exc # "none" THEN [exc |-> ea.exc, level |-> "none"]
        ELSE IF ec.exc # "none" THEN [exc |-> ec.exc, level |-> "none"]
        ELSE [exc |-> "none", level |-> get_trust_level(expected_score)]

InitExpected ==
    /\ IsReceipt(receipt)
    /\ pc = "score"
    /\ result = NoResult
    /\ score = 0
    /\ level = "none"
    /\ Quiescent

\* score = compute_trust_score(receipt)
HarnessScore ==
    /\ pc = "score"
    /\ result' = compute_trust_score(receipt)
    /\ score' = result'.score
    /\ pc' = IF result'.exc = "none" THEN "expect" ELSE "crashed"
    /\ UNCHANGED <<receipt, level, iovars, emit, ret, ctlvars, auxvars>>

\* expected_level = get_expected_level(receipt);
\* actual_level = get_trust_level(score)
HarnessExpect ==
    /\ pc = "expect"
    /\ returned' = get_expected_level(receipt)
    /\ level' = get_trust_level(score)
    /\ pc' = IF returned'.exc = "none" THEN "compared" ELSE "crashed"
    /\ UNCHANGED <<receipt, result, score, iovars, emit, ret, ctlvars,
                   config, state, items, hashes, input, history, groups>>

NextExpected == HarnessScore \/ HarnessExpect

SpecExpected == InitExpected /\ [][NextExpected]_vars

-----------------------------------------------------------------------------
(* Monte Carlo harness, src/sim/sim.py and src/sim/scenarios.py *)

\* float('inf')
PyInf == [t |-> "inf"]

TxtSimulationRun ==
    <<"s", "i", "m", "u", "l", "a", "t", "i", "o", "n", "_", "r", "u", "n">>
TxtDecision == <<"d", "e", "c", "i", "s", "i", "o", "n">>
NameBaseline == <<"B", "A", "S", "E", "L", "I", "N", "E">>
NameStressVolume ==
    <<"S", "T", "R", "E", "S", "S", "_", "V", "O", "L", "U", "M", "E">>
NameMalformed ==
    <<"M", "A", "L", "F", "O", "R", "M", "E", "D", "_", "R", "E", "C", "E",
      "I", "P", "T", "S">>
NameCustom == <<"C", "U", "S", "T", "O", "M">>

\* the approvers generate_test_receipt chooses from
GeneratedApprovers ==
    {<<"C", "P", "T", " ", "S", "m", "i", "t", "h">>,
     <<"C", "P", "T", " ", "J", "o", "n", "e", "s">>,
     <<"C", "P", "T", " ", "A", "n", "d", "e", "r", "s", "o", "n">>,
     <<"C", "P", "T", " ", "W", "i", "l", "s", "o", "n">>}

\* random.randint(0, 8)
GeneratedSourceCounts == 0..8

\* random.uniform(0.3, 1.0): the ends, the scoring thresholds and the
\* values just below the thresholds
GeneratedConfidences ==
    {3000, 4999, 5000, 7499, 7500, 8999, 9000, 10000}

\* the well-formed receipts generate_test_receipt returns; ts and
\* decision_id, which neither the scorer, the reference nor the renderer
\* reads, are left out
GeneratedReceipt(source_count, approver, confidence, monte_carlo, verified) ==
    LET base == [receipt_type |-> PyStr(TxtDecision),
                 tenant_id |-> PyStr(TxtDefault),
                 sources |-> PyList(SourceNames(source_count)),
                 monte_carlo_validated |-> PyBool(monte_carlo),
                 human_verified |-> PyBool(verified)]
        with_raci ==
            IF Truthy(approver)
            THEN ("raci" :> PyDict([accountable |-> approver])) @@ base
            ELSE base
    IN  IF Truthy(confidence)
        THEN ("confidence" :> confidence) @@ with_raci
        ELSE with_raci

IsGeneratedReceipt(r) ==
    \E source_count \in GeneratedSourceCounts :
        \E approver \in {PyNone} \cup {PyStr(a) : a \in GeneratedApprovers} :
            \E confidence \in
                    {PyNone} \cup {PyFloat(c) : c \in GeneratedConfidences} :
                \E monte_carlo \in BOOLEAN, human_verified \in BOOLEAN :
                    r = GeneratedReceipt(source_count, approver, confidence,
                                         monte_carlo, human_verified)

\* SimState() with the locals of run_scenario: correct_scores,
\* total_scores, the index i of the candidate, receipts_per_cycle, the
\* final violations list and sim_params; faults counts the calls in which
\* the interpreter raised, executed lists the cycles whose body was
\* entered, and candidates counts the calls of generate_test_receipt
NewSimState(sim_params) ==
    [cycle |-> 0, receipts_processed |-> 0, receipts_emitted |-> 0,
     errors_emitted |-> 0, crashes |-> 0, violations |-> <<>>,
     metrics |-> EmptyDict, converged |-> FALSE,
     correct_scores |-> 0, total_scores |-> 0,
     i |-> 0, receipts_per_cycle |-> 0, final_violations |-> <<>>,
     sim_params |-> sim_params, faults |-> 0,
     executed |-> <<>>, candidates |-> 0]

\* the violation messages
CrashMessage(cycle, e) ==
    [t |-> "msg", kind |-> "Crash at cycle", cycle |-> cycle, e |-> e]
CycleErrorMessage(cycle, e) ==
    [t |-> "msg", kind |-> "Cycle error", cycle |-> cycle, e |-> e]
NotFoundMessage(metric_name) ==
    [t |-> "msg", kind |-> "not found", metric |-> metric_name]
FailedMessage(metric_name, value, comparator, threshold) ==
    [t |-> "msg", kind |-> "FAILED", metric |-> metric_name,
     value |-> value, comparator |-> comparator, threshold |-> threshold]

\* the except clause of the candidate: state.crashes += 1 and one message
Crashed(st, e) ==
    [st EXCEPT !.crashes = @ + 1,
               !.violations = Append(@, CrashMessage(st.cycle, e))]

\* the exception the interpreter raises when a call runs out of memory
TxtFault == "MemoryError"

\* a harness that counts the receipt as emitted before it renders it
CandidateRendered_counted(st, rr) ==
    IF rr.exc # "none"
    THEN [state |-> Crashed([st EXCEPT !.receipts_emitted = @ + 1], rr.exc),
          stop |-> NoStop]
    ELSE IF rr.stop.metric # "none"
    THEN [state |-> Crashed([st EXCEPT !.receipts_emitted = @ + 1],
                            "StopRule"),
          stop |-> rr.stop]
    ELSE [state |-> [st EXCEPT !.receipts_emitted = @ + 1], stop |-> NoStop]

\* the candidate once rendered: receipts_emitted += 1, or the except
\* clause; stop is the stop rule the renderer ran
CandidateRendered(st, rr) ==
    IF rr.exc # "none"
    THEN [state |-> Crashed(st, rr.exc), stop |-> NoStop]
    ELSE IF rr.stop.metric # "none"
    THEN [state |-> Crashed(st, "StopRule"), stop |-> rr.stop]
    ELSE [state |-> [st EXCEPT !.receipts_emitted = @ + 1], stop |-> NoStop]

\* the candidate once its expected level is known: count the comparison,
\* then render
CandidateCompared(st, r, s, el, fault) ==
    IF el.exc # "none"
    THEN [state |-> Crashed(st, el.exc), stop |-> NoStop]
    ELSE CandidateRendered(
             [st EXCEPT !.correct_scores =
                            IF el.level = get_trust_level(s) THEN @ + 1
                            ELSE @,
                        !.total_scores = @ + 1],
             IF fault = "render"
             THEN [exc |-> TxtFault, stop |-> NoStop, output |-> <<>>]
             ELSE render_traffic_light(s, r))

\* the candidate once scored: receipts_processed += 1, then compare
CandidateScored(st, r, cs, fault) ==
    IF cs.exc # "none"
    THEN [state |-> Crashed(st, cs.exc), stop |-> NoStop]
    ELSE CandidateCompared([st EXCEPT !.receipts_processed = @ + 1],
                           r, cs.score, get_expected_level(r), fault)

\* the body of the loop for a well-formed receipt; fault is the call in
\* which the interpreter raises ("score", "render"), "none" if in neither
ProcessCandidate(st, r, fault) ==
    CandidateScored(st, r,
                    IF fault = "score"
                    THEN [exc |-> TxtFault, score |-> 0]
                    ELSE compute_trust_score(r),
                    fault)

\* the base parameter set of run_scenario
BaseParams ==
    [volume_multiplier |-> PyFloat(Scale), malformed_rate |-> PyFloat(0),
     effectiveness |-> PyFloat(Scale)]

\* the stress vectors of scenarios.py, as the parameter they set
multiply_volume(factor) == [key |-> "volume_multiplier", value |-> factor]
inject_malformed(rate) == [key |-> "malformed_rate", value |-> rate]

\* for stress in config.stress_vectors: sim_params = stress(sim_params)
RECURSIVE ApplyStress(_, _)
ApplyStress(sim_params, stress_vectors) ==
    IF stress_vectors = <<>> THEN sim_params
    ELSE ApplyStress([sim_params EXCEPT ![Head(stress_vectors).key] =
                                            Head(stress_vectors).value],
                     Tail(stress_vectors))

\* success criteria of the three scenarios
BaselineCriteria ==
    <<<<"trust_score_accuracy", PyFloat(9500), ">=">>,
      <<"rendering_latency_ms", PyInt(10), "<=">>,
      <<"receipt_emission", PyFloat(Scale), "==">>>>
StressVolumeCriteria ==
    <<<<"ingestion_latency_s", PyFloat(5 * Scale), "<=">>,
      <<"trust_score_accuracy", PyFloat(9000), ">=">>,
      <<"memory_gb", PyFloat(55000), "<=">>>>
MalformedCriteria ==
    <<<<"error_receipt_emission", PyFloat(Scale), "==">>,
      <<"system_crash_count", PyInt(0), "==">>,
      <<"valid_receipt_processing", PyFloat(8000), ">=">>>>

\* criteria naming a metric the harness does not compute and a comparator
\* it does not know
UnknownCriteria ==
    <<<<"throughput", PyFloat(Scale), ">=">>,
      <<"system_crash_count", PyInt(0), "!=">>>>

\* a criterion whose threshold is a str
TextThresholdCriteria ==
    <<<<"trust_score_accuracy", PyStr(<<"0", ".", "9", "5">>), ">=">>>>

ScenarioConfig(name, n_cycles, stress_vectors, success_criteria, early) ==
    [name |-> name, n_cycles |-> n_cycles, stress_vectors |-> stress_vectors,
     success_criteria |-> success_criteria, random_seed |-> 42,
     early_termination |-> early]

\* the number a metric or threshold compares as, in 1/Scale units
NumOf(v) == IF v.t = "float" THEN v.f ELSE v.i * Scale

\* a comparison that lets a comparator it does not know pass
Passed_unknown(value, threshold, comparator) ==
    IF comparator \notin {">=", "<=", "==", ">", "<"}
    THEN [exc |-> "none", passed |-> TRUE]
    ELSE IF threshold.t \notin {"float", "int"}
    THEN IF comparator = "==" THEN [exc |-> "none", passed |-> FALSE]
         ELSE [exc |-> "TypeError", passed |-> FALSE]
    ELSE [exc |-> "none",
          passed |-> CASE comparator = ">=" -> NumOf(value) >= NumOf(threshold)
                       [] comparator = "<=" -> NumOf(value) <= NumOf(threshold)
                       [] comparator = "==" -> NumOf(value) = NumOf(threshold)
                       [] comparator = ">" -> NumOf(value) > NumOf(threshold)
                       [] comparator = "<" -> NumOf(value) < NumOf(threshold)]

\* one comparison of validate_criteria: passed, or the TypeError an
\* ordering of a number and a str raises
Passed(value, threshold, comparator) ==
    IF comparator \notin {">=", "<=", "==", ">", "<"}
    THEN [exc |-> "none", passed |-> FALSE]
    ELSE IF threshold.t \notin {"float", "int"}
    THEN IF comparator = "==" THEN [exc |-> "none", passed |-> FALSE]
         ELSE [exc |-> "TypeError", passed |-> FALSE]
    ELSE [exc |-> "none",
          passed |-> CASE comparator = ">=" -> NumOf(value) >= NumOf(threshold)
                       [] comparator = "<=" -> NumOf(value) <= NumOf(threshold)
                       [] comparator = "==" -> NumOf(value) = NumOf(threshold)
                       [] comparator = ">" -> NumOf(value) > NumOf(threshold)
                       [] comparator = "<" -> NumOf(value) < NumOf(threshold)]

\* validate_criteria(metrics, criteria): the violation messages, or the
\* exception a comparison raises
RECURSIVE validate_criteria(_, _)
validate_criteria(metrics, criteria) ==
    IF criteria = <<>> THEN [exc |-> "none", violations |-> <<>>]
    ELSE LET c == Head(criteria)
             rest == validate_criteria(metrics, Tail(criteria))
         IN  IF c[1] \notin DOMAIN metrics
             THEN [rest EXCEPT !.violations =
                                   <<NotFoundMessage(c[1])>> \o @]
             ELSE LET p == Passed(metrics[c[1]], c[2], c[3])
                  IN  IF p.exc # "none"
                      THEN [exc |-> p.exc, violations |-> <<>>]
                      ELSE IF p.passed THEN rest
                      ELSE [rest EXCEPT !.violations =
                                <<FailedMessage(c[1], metrics[c[1]], c[3],
                                                c[2])>> \o @]

\* a / b as a float
Ratio(a, b) == PyFloat((a * Scale) \div b)

\* state.metrics of run_scenario, for the elapsed time and the peak memory
\* the run measured
Metrics(st, elapsed, peak_gb) ==
    [cycles_completed |-> PyInt(st.cycle + 1),
     receipts_processed |-> PyInt(st.receipts_processed),
     receipts_emitted |-> PyInt(st.receipts_emitted),
     trust_score_accuracy |->
         IF st.total_scores > 0
         THEN Ratio(st.correct_scores, st.total_scores) ELSE PyInt(0),
     receipt_emission |->
         IF st.receipts_processed > 0
         THEN Ratio(st.receipts_emitted, st.receipts_processed)
         ELSE PyInt(0),
     error_receipt_emission |->
         IF st.errors_emitted > 0 \/ st.sim_params.malformed_rate = PyFloat(0)
         THEN PyFloat(Scale) ELSE PyInt(0),
     system_crash_count |-> PyInt(st.crashes),
     valid_receipt_processing |->
         IF st.receipts_processed + st.errors_emitted > 0
         THEN Ratio(st.receipts_processed,
                    st.receipts_processed + st.errors_emitted)
         ELSE PyFloat(Scale),
     ingestion_latency_s |->
         IF st.receipts_processed > 0
         THEN PyFloat(elapsed \div st.receipts_processed) ELSE PyInt(0),
     rendering_latency_ms |-> PyFloat(Scale),
     memory_gb |-> PyFloat(peak_gb),
     elapsed_seconds |-> PyFloat(elapsed)]

\* receipts_per_cycle = int(10 * sim_params["volume_multiplier"])
RECEIPTS_PER_CYCLE == 10

\* the generated candidate: score it, compare, render, all in the try
GeneratedCandidate ==
    /\ pc = "candidate"
    /\ \E out \in {ProcessCandidate(state, receipt, "none")} :
           /\ state' = out.state
           /\ stop' = out.stop
    /\ pc' = "processed"
    /\ UNCHANGED <<callvars0, iovars, emit, ret, caller, exc, shown,
                   callStart, config, items, hashes, input, history, groups,
                   returned>>

InitGenerated ==
    /\ IsGeneratedReceipt(receipt)
    /\ pc = "candidate"
    /\ result = NoResult
    /\ score = 0
    /\ level = "none"
    /\ has_blake3 \in BOOLEAN
    /\ clock = 0
    /\ stdout = <<>>
    /\ stderr = <<>>
    /\ ledger = <<>>
    /\ emit = NoEmit
    /\ ret = EmptyDict
    /\ caller = "run_scenario"
    /\ exc = "none"
    /\ stop = NoStop
    /\ shown = NoShown
    /\ callStart = 0
    /\ config = NoConfig
    /\ \E k \in 0..MaxProcessed :
           state = [NewSimState(BaseParams) EXCEPT
                       !.receipts_processed = k, !.receipts_emitted = k,
                       !.correct_scores = k, !.total_scores = k, !.i = k,
                       !.candidates = k]
    /\ items = <<>>
    /\ hashes = <<>>
    /\ input = [kind |-> "none"]
    /\ history = <<>>
    /\ groups = <<>>
    /\ returned = NoReturn

NextGenerated == GeneratedCandidate

SpecGenerated == InitGenerated /\ [][NextGenerated]_vars

-----------------------------------------------------------------------------
(* Callers: src/cli.py, src/demo/streamlit_app.py, src/watchdog.py *)

\* payloads handed to emit_receipt directly
Payloads ==
    {[status |-> PyStr(TxtPass), message |-> PyStr(TxtTestMessage)],
     [status |-> PyStr(TxtPass), tenant_id |-> PyStr(TxtAcme)],
     [status |-> PyStr(TxtPass), payload_hash |-> PyStr(TxtForged)],
     [receipt_type |-> PyStr(TxtForged)]}

ReceiptTypes == {TxtTest}

\* callers of the scorer and the renderer
Callers == {"cmd_trust", "streamlit", "check_trust_score",
            "check_traffic_light"}

\* callers that wrap the call in `except Exception`
CatchesException(c) ==
    c \in {"streamlit", "check_trust_score", "check_traffic_light"}

\* receipts a user hands to cmd_trust or pastes into the demo
UserReceipts ==
    {EmptyDict,
     [approver |-> PyStr(NameHashimoto)],
     [approver |-> PyStr(WordyName(40))],
     [approver |-> PyStr(WordyName(41))],
     [confidence |-> PyBigInt],
     [confidence |-> PyFloat(9500),
      sources |-> PyList(SourceNames(5)),
      raci |-> PyDict([accountable |-> PyStr(NameSmith)]),
      monte_carlo_validated |-> PyBool(TRUE),
      human_verified |-> PyBool(TRUE)]}

CallerReceipts(c) ==
    IF c = "check_trust_score"
    THEN {[confidence |-> PyFloat(9500),
           sources |-> PyList(SourceNames(5)),
           raci |-> PyDict([accountable |-> PyStr(NameSmith)])]}
    ELSE IF c = "check_traffic_light"
    THEN {[confidence |-> PyFloat(9000)]}
    ELSE UserReceipts

Init ==
    /\ receipt = EmptyDict
    /\ pc = "idle"
    /\ result = NoResult
    /\ score = 0
    /\ level = "none"
    /\ has_blake3 \in BOOLEAN
    /\ clock = 0
    /\ stdout = <<>>
    /\ stderr = <<>>
    /\ ledger = <<>>
    /\ emit = NoEmit
    /\ ret = EmptyDict
    /\ caller = "none"
    /\ exc = "none"
    /\ stop = NoStop
    /\ shown = NoShown
    /\ callStart = 0
    /\ AuxIdle

\* time passes between calls
Tick ==
    /\ UNCHANGED auxvars
    /\ pc = "idle"
    /\ clock < MaxClock
    /\ clock' = clock + 1
    /\ UNCHANGED <<pc, callvars0, has_blake3, stdout, stderr, ledger, emit,
                   ret, ctlvars>>

\* a caller invokes emit_receipt(receipt_type, data)
EmitCall(receipt_type, data) ==
    /\ UNCHANGED auxvars
    /\ pc = "idle"
    /\ Len(stdout) < MaxLines
    /\ emit' = NewEmit(receipt_type, data, "idle")
    /\ pc' = "emit_receipt"
    /\ exc' = "none"
    /\ caller' = "emit"
    /\ callStart' = Len(stdout)
    /\ shown' = NoShown
    /\ UNCHANGED <<receipt, result, score, level, iovars, ret, stop>>

\* emit_receipt taking the ledger write before the print
emit_receipt_append_first ==
    /\ UNCHANGED auxvars
    /\ pc = "emit_receipt"
    /\ LET rec == Receipt(emit.receipt_type, emit.data, clock, has_blake3)
           line == json_dumps(rec)
       IN  emit' = [emit EXCEPT !.status = "printed", !.now = clock,
                                !.rec = rec, !.line = line,
                                !.ledger0 = ledger]
    /\ pc' = "emit_append"
    /\ UNCHANGED <<callvars0, has_blake3, clock, stdout, stderr, ledger,
                   ret, ctlvars>>

\* emit_receipt: build the record, print its line to stdout
emit_receipt_print ==
    /\ UNCHANGED auxvars
    /\ pc = "emit_receipt"
    /\ LET rec == Receipt(emit.receipt_type, emit.data, clock, has_blake3)
           line == json_dumps(rec)
       IN  /\ stdout' = Append(stdout, [kind |-> "json", line |-> line])
           /\ emit' = [emit EXCEPT !.status = "printed", !.now = clock,
                                   !.rec = rec, !.line = line,
                                   !.ledger0 = ledger]
    /\ pc' = "emit_append"
    /\ UNCHANGED <<callvars0, has_blake3, clock, stderr, ledger, ret,
                   ctlvars>>

\* emit_receipt: the append to the ledger file succeeds; return the record
emit_receipt_append ==
    /\ UNCHANGED auxvars
    /\ pc = "emit_append"
    /\ ledger' = LedgerWrite(ledger, emit.line)
    /\ emit' = [emit EXCEPT !.status = "ok"]
    /\ ret' = emit.rec
    /\ pc' = emit.ret_pc
    /\ UNCHANGED <<callvars0, has_blake3, clock, stdout, stderr, ctlvars>>

\* emit_receipt with no except clause around the append
emit_receipt_append_raises ==
    /\ UNCHANGED auxvars
    /\ pc = "emit_append"
    /\ emit' = [emit EXCEPT !.status = "failed"]
    /\ exc' = "OSError"
    /\ pc' = "exit"
    /\ UNCHANGED <<callvars0, has_blake3, clock, stdout, stderr, ledger,
                   ret, caller, stop, shown, callStart>>

\* emit_receipt: open or write raises IOError/OSError; warn on stderr and
\* return the record
emit_receipt_append_failed ==
    /\ UNCHANGED auxvars
    /\ pc = "emit_append"
    /\ stderr' = Append(stderr, "WARNING: Failed to append receipt")
    /\ emit' = [emit EXCEPT !.status = "failed"]
    /\ ret' = emit.rec
    /\ pc' = emit.ret_pc
    /\ UNCHANGED <<callvars0, has_blake3, clock, stdout, ledger, ctlvars>>

\* cmd_trust, the demo's Analyze button or a health check starts
BeginCall(c, r) ==
    /\ UNCHANGED auxvars
    /\ pc = "idle"
    /\ Len(stdout) < MaxLines
    /\ caller' = c
    /\ receipt' = r
    /\ callStart' = Len(stdout)
    /\ exc' = "none"
    /\ shown' = NoShown
    /\ stop' = NoStop
    /\ result' = NoResult
    /\ level' = "none"
    /\ score' = IF c = "check_traffic_light" THEN 90 ELSE 0
    /\ pc' = IF c = "check_traffic_light" THEN "render" ELSE "score"
    /\ UNCHANGED <<iovars, emit, ret>>

\* score = compute_trust_score(receipt)
ScoreCall ==
    /\ UNCHANGED auxvars
    /\ pc = "score"
    /\ result' = compute_trust_score(receipt)
    /\ IF result'.exc = "StopRule"
       THEN /\ stop' = [metric |-> "trust_score_range",
                        baseline |-> 50 * Scale,
                        actual |-> result'.score * Scale]
            /\ pc' = "stoprule"
            /\ UNCHANGED <<score, level, exc>>
       ELSE IF result'.exc # "none"
       THEN /\ exc' = result'.exc
            /\ pc' = "unwind"
            /\ UNCHANGED <<score, level, stop>>
       ELSE /\ score' = result'.score
            /\ level' = get_trust_level(result'.score)
            /\ pc' = IF caller = "check_trust_score" THEN "done"
                     ELSE "render"
            /\ UNCHANGED <<exc, stop>>
    /\ UNCHANGED <<receipt, iovars, emit, ret, caller, shown, callStart>>

\* output = render_traffic_light(score, receipt)
RenderCall ==
    /\ UNCHANGED auxvars
    /\ pc = "render"
    /\ \E rr \in {render_traffic_light(score, receipt)} :
           IF rr.exc # "none"
           THEN /\ exc' = rr.exc
                /\ pc' = "unwind"
                /\ UNCHANGED <<stop, shown>>
           ELSE IF rr.stop.metric # "none"
           THEN /\ stop' = rr.stop
                /\ pc' = "stoprule"
                /\ UNCHANGED <<exc, shown>>
           ELSE /\ shown' = [kind |-> "output", exc |-> "none"]
                /\ pc' = "done"
                /\ UNCHANGED <<exc, stop>>
    /\ UNCHANGED <<callvars0, iovars, emit, ret, caller, callStart>>

\* a stoprule_* function that raises without emitting
stoprule_skip_emit ==
    /\ UNCHANGED auxvars
    /\ pc = "stoprule"
    /\ pc' = "stoprule_raise"
    /\ UNCHANGED <<callvars0, iovars, emit, ret, ctlvars>>

\* stoprule_trust_score_invalid, stoprule_summary_too_long and
\* stoprule_crypto_in_summary: emit_anomaly(..., "violation", "halt")
stoprule_emit ==
    /\ UNCHANGED auxvars
    /\ pc = "stoprule"
    /\ emit' = NewEmit(TxtAnomaly,
                       AnomalyPayload(MetricText(stop.metric), stop.baseline,
                                      stop.actual, TxtViolation, TxtHalt),
                       "stoprule_raise")
    /\ pc' = "emit_receipt"
    /\ UNCHANGED <<callvars0, iovars, ret, ctlvars>>

\* ... then raise StopRule
stoprule_raise ==
    /\ UNCHANGED auxvars
    /\ pc = "stoprule_raise"
    /\ exc' = "StopRule"
    /\ pc' = "unwind"
    /\ UNCHANGED <<callvars0, iovars, emit, ret, caller, stop, shown,
                   callStart>>

\* no handler in the caller: the exception reaches the process boundary
Propagate ==
    /\ UNCHANGED auxvars
    /\ pc = "unwind"
    /\ ~CatchesException(caller)
    /\ pc' = "exit"
    /\ UNCHANGED <<callvars0, iovars, emit, ret, ctlvars>>

\* `except Exception as e`: the caller reports the error and carries on
Catch ==
    /\ UNCHANGED auxvars
    /\ pc = "unwind"
    /\ CatchesException(caller)
    /\ shown' = [kind |-> "error", exc |-> exc]
    /\ exc' = "none"
    /\ pc' = "idle"
    /\ UNCHANGED <<callvars0, iovars, emit, ret, caller, stop, callStart>>

\* cmd_trust: print(output); return 0
FinishTrust ==
    /\ UNCHANGED auxvars
    /\ pc = "done"
    /\ caller = "cmd_trust"
    /\ stdout' = Append(stdout, [kind |-> "text", line |-> <<>>])
    /\ pc' = "exit"
    /\ UNCHANGED <<callvars0, has_blake3, clock, stderr, ledger, emit, ret,
                   ctlvars>>

\* the demo shows the display; a health check returns (True, message)
FinishShow ==
    /\ UNCHANGED auxvars
    /\ pc = "done"
    /\ caller # "cmd_trust"
    /\ shown' = [kind |-> "ok", exc |-> "none"]
    /\ pc' = "idle"
    /\ UNCHANGED <<callvars0, iovars, emit, ret, caller, exc, stop,
                   callStart>>

\* open(ledger_path, 'a') with nothing written (or touch): no line changes
LedgerOpenAppend(file) == file

\* watchdog check_receipts_ledger: create the file or open it for append
check_receipts_ledger ==
    /\ UNCHANGED auxvars
    /\ pc = "idle"
    /\ caller # "check_receipts_ledger"
    /\ ledger' = LedgerOpenAppend(ledger)
    /\ caller' = "check_receipts_ledger"
    /\ shown' = [kind |-> "ok", exc |-> "none"]
    /\ exc' = "none"
    /\ callStart' = Len(stdout)
    /\ UNCHANGED <<pc, callvars0, has_blake3, clock, stdout, stderr, emit,
                   ret, stop>>

Next ==
    \/ Tick
    \/ check_receipts_ledger
    \/ \E t \in ReceiptTypes, data \in Payloads : EmitCall(t, data)
    \/ emit_receipt_print
    \/ emit_receipt_append
    \/ emit_receipt_append_failed
    \/ \E c \in Callers : \E r \in CallerReceipts(c) : BeginCall(c, r)
    \/ ScoreCall
    \/ RenderCall
    \/ stoprule_emit
    \/ stoprule_raise
    \/ Propagate
    \/ Catch
    \/ FinishTrust
    \/ FinishShow

Spec == Init /\ [][Next]_vars

-----------------------------------------------------------------------------
(* run_scenario, src/sim/sim.py *)

\* the scenario configurations of the model
Scenarios ==
    {ScenarioConfig(NameBaseline, n, <<>>, BaselineCriteria, "none") :
         n \in 0..MaxCycles}
    \cup
    {ScenarioConfig(NameStressVolume, 1, <<multiply_volume(PyFloat(5000))>>,
                    StressVolumeCriteria, "none"),
     ScenarioConfig(NameMalformed, MaxCycles,
                    <<inject_malformed(PyFloat(2000)),
                      multiply_volume(PyFloat(2000))>>,
                    MalformedCriteria, "none"),
     ScenarioConfig(NameCustom, MaxCycles, <<multiply_volume(PyInf)>>,
                    MalformedCriteria, "none"),
     ScenarioConfig(NameCustom, MaxCycles,
                    <<multiply_volume(PyFloat(5000)),
                      multiply_volume(PyFloat(2000))>>,
                    UnknownCriteria, "crashed"),
     ScenarioConfig(NameCustom, 1,
                    <<inject_malformed(PyFloat(Scale)),
                      multiply_volume(PyFloat(1000))>>,
                    MalformedCriteria, "none"),
     ScenarioConfig(NameCustom, 1, <<multiply_volume(PyFloat(1000))>>,
                    TextThresholdCriteria, "none")}

\* config.early_termination(state) of a scenario that stops on a crash
EarlyTermination(predicate, st) == predicate = "crashed" /\ st.crashes > 0

\* receipts of the population the candidates of a run are drawn from
SimPopulation ==
    {GeneratedReceipt(0, PyNone, PyNone, FALSE, FALSE),
     GeneratedReceipt(1, PyNone, PyFloat(5000), FALSE, TRUE),
     GeneratedReceipt(5, PyStr(NameSmith), PyFloat(9000), TRUE, FALSE)}

\* time.time() - start_time, in 1/Scale s
ElapsedSeconds == {1000, 100 * Scale}

\* tracemalloc's peak, in 1/Scale GB
PeakGb == {100, 6 * Scale}

InitSim ==
    /\ config \in Scenarios
    /\ pc = "run_scenario"
    /\ receipt = EmptyDict
    /\ result = NoResult
    /\ score = 0
    /\ level = "none"
    /\ has_blake3 = TRUE
    /\ clock = 0
    /\ stdout = <<>>
    /\ stderr = <<>>
    /\ ledger = <<>>
    /\ emit = NoEmit
    /\ ret = EmptyDict
    /\ caller = "run_scenario"
    /\ exc = "none"
    /\ stop = NoStop
    /\ shown = NoShown
    /\ callStart = 0
    /\ state = NoState
    /\ items = <<>>
    /\ hashes = <<>>
    /\ input = [kind |-> "none"]
    /\ history = <<>>
    /\ groups = <<>>
    /\ returned = NoReturn

simfixed == <<callvars0, has_blake3, clock, ret, caller, shown, callStart,
              config, items, hashes, input, history, groups>>

\* run_scenario: SimState(), the stress vectors applied to the base set
sim_start ==
    /\ pc = "run_scenario"
    /\ state' = NewSimState(ApplyStress(BaseParams, config.stress_vectors))
    /\ pc' = IF config.n_cycles > 0 THEN "sim_cycle" ELSE "sim_finalize"
    /\ UNCHANGED <<simfixed, stdout, stderr, ledger, emit, exc, stop,
                   returned>>

\* the head of a cycle: receipts_per_cycle = int(10 * volume_multiplier);
\* int() of an infinite float raises into the cycle's except clause
sim_cycle ==
    /\ pc = "sim_cycle"
    /\ LET vm == state.sim_params.volume_multiplier
       IN  IF vm.t = "inf"
           THEN /\ state' = [state EXCEPT
                                !.crashes = @ + 1,
                                !.executed = Append(@, state.cycle),
                                !.violations =
                                    Append(@, CycleErrorMessage(
                                                  state.cycle,
                                                  "OverflowError"))]
                /\ pc' = "sim_cycle_end"
           ELSE /\ state' = [state EXCEPT
                                !.i = 0,
                                !.executed = Append(@, state.cycle),
                                !.receipts_per_cycle =
                                    (RECEIPTS_PER_CYCLE * vm.f) \div Scale]
                /\ pc' = IF RECEIPTS_PER_CYCLE * vm.f >= Scale
                         THEN "sim_candidate" ELSE "sim_cycle_end"
    /\ UNCHANGED <<simfixed, stdout, stderr, ledger, emit, exc, stop,
                   returned>>

\* where the loop over the candidates goes after candidate i
AfterCandidate(st) ==
    IF st.i + 1 < st.receipts_per_cycle THEN "sim_candidate"
    ELSE "sim_cycle_end"

\* a malformed candidate: state.errors_emitted += 1; continue
sim_malformed ==
    /\ pc = "sim_candidate"
    /\ state.sim_params.malformed_rate.f > 0
    /\ state' = [state EXCEPT !.errors_emitted = @ + 1, !.i = @ + 1,
                               !.candidates = @ + 1]
    /\ pc' = AfterCandidate(state)
    /\ UNCHANGED <<simfixed, stdout, stderr, ledger, emit, exc, stop,
                   returned>>

\* a well-formed candidate: the body of the inner try; a stop rule run by
\* the renderer emits its anomaly record before the except clause
sim_process ==
    /\ pc = "sim_candidate"
    /\ state.sim_params.malformed_rate.f < Scale
    /\ \E r \in SimPopulation :
           \E out \in {ProcessCandidate(state, r, "none")} :
               /\ state' = [out.state EXCEPT !.i = @ + 1,
                                              !.candidates = @ + 1]
               /\ stop' = out.stop
               /\ IF out.stop.metric = "none"
                  THEN UNCHANGED <<stdout, stderr, ledger>>
                  ELSE LET line ==
                               json_dumps(Receipt(
                                   TxtAnomaly,
                                   AnomalyPayload(MetricText(out.stop.metric),
                                                  out.stop.baseline,
                                                  out.stop.actual,
                                                  TxtViolation, TxtHalt),
                                   clock, has_blake3))
                       IN  /\ stdout' = Append(stdout, [kind |-> "json",
                                                        line |-> line])
                           /\ ledger' \in {ledger, LedgerWrite(ledger, line)}
                           /\ stderr' =
                                  IF ledger' = ledger
                                  THEN Append(stderr,
                                         "WARNING: Failed to append receipt")
                                  ELSE stderr
    /\ pc' = AfterCandidate(state)
    /\ UNCHANGED <<simfixed, emit, exc, returned>>

\* a well-formed candidate whose scoring or rendering call aborts the run
\* of the remaining candidates
sim_fault_aborts(where) ==
    /\ pc = "sim_candidate"
    /\ state.sim_params.malformed_rate.f < Scale
    /\ state.faults < MaxFaults
    /\ \E r \in SimPopulation :
           \E out \in {ProcessCandidate(state, r, where)} :
               state' = [out.state EXCEPT !.i = @ + 1, !.faults = @ + 1,
                                          !.candidates = @ + 1]
    /\ pc' = "sim_finalize"
    /\ UNCHANGED <<simfixed, stdout, stderr, ledger, emit, exc, stop,
                   returned>>

\* a well-formed candidate during whose scoring or rendering call the
\* interpreter raises: the except clause of the inner try
sim_fault(where) ==
    /\ pc = "sim_candidate"
    /\ state.sim_params.malformed_rate.f < Scale
    /\ state.faults < MaxFaults
    /\ \E r \in SimPopulation :
           \E out \in {ProcessCandidate(state, r, where)} :
               state' = [out.state EXCEPT !.i = @ + 1, !.faults = @ + 1,
                                          !.candidates = @ + 1]
    /\ pc' = AfterCandidate(state)
    /\ UNCHANGED <<simfixed, stdout, stderr, ledger, emit, exc, stop,
                   returned>>

\* the foot of a cycle: the early termination check, the next cycle
sim_cycle_end ==
    /\ pc = "sim_cycle_end"
    /\ IF EarlyTermination(config.early_termination, state)
       THEN /\ state' = [state EXCEPT !.converged = TRUE]
            /\ pc' = "sim_finalize"
       ELSE IF state.cycle + 1 < config.n_cycles
       THEN /\ state' = [state EXCEPT !.cycle = @ + 1]
            /\ pc' = "sim_cycle"
       ELSE /\ state' = state
            /\ pc' = "sim_finalize"
    /\ UNCHANGED <<simfixed, stdout, stderr, ledger, emit, exc, stop,
                   returned>>

\* the payload of the simulation_run record
SimulationRun(name, st) ==
    [scenario_name |-> PyStr(name),
     cycles_completed |-> PyInt(st.cycle + 1),
     success |-> PyBool(st.final_violations = <<>>),
     violations |-> PyList(st.final_violations),
     metrics |-> PyDict(st.metrics)]

\* the metrics, validate_criteria (whose exception leaves run_scenario)
\* and the call of emit_receipt("simulation_run", ...)
sim_finalize ==
    /\ pc = "sim_finalize"
    /\ \E elapsed \in ElapsedSeconds, peak_gb \in PeakGb :
           \E vc \in {validate_criteria(Metrics(state, elapsed, peak_gb),
                                        config.success_criteria)} :
               /\ state' = [state EXCEPT
                               !.metrics = Metrics(state, elapsed, peak_gb),
                               !.final_violations =
                                   vc.violations \o state.violations]
               /\ IF vc.exc # "none"
                  THEN /\ exc' = vc.exc
                       /\ pc' = "sim_raised"
                       /\ emit' = emit
                  ELSE /\ exc' = exc
                       /\ pc' = "emit_receipt"
                       /\ emit' = NewEmit(TxtSimulationRun,
                                          SimulationRun(config.name, state'),
                                          "sim_return")
    /\ UNCHANGED <<simfixed, stdout, stderr, ledger, stop, returned>>

\* return SimResult(...)
sim_return ==
    /\ pc = "sim_return"
    /\ returned' = [scenario_name |-> config.name,
                    success |-> state.final_violations = <<>>,
                    cycles_completed |-> state.cycle + 1,
                    violations |-> state.final_violations,
                    metrics |-> state.metrics]
    /\ pc' = "sim_done"
    /\ UNCHANGED <<callvars0, iovars, emit, ret, ctlvars, config, state,
                   items, hashes, input, history, groups>>

NextSim ==
    \/ sim_start
    \/ sim_cycle
    \/ sim_malformed
    \/ sim_process
    \/ \E where \in {"score", "render"} : sim_fault(where)
    \/ sim_cycle_end
    \/ sim_finalize
    \/ emit_receipt_print
    \/ emit_receipt_append
    \/ emit_receipt_append_failed
    \/ sim_return

SpecSim == InitSim /\ [][NextSim]_vars

-----------------------------------------------------------------------------
(* Merkle root, src/src/core.py *)

TxtEmpty == <<"e", "m", "p", "t", "y">>

\* what merkle hands to dual_hash: the bytes literal b"empty", the JSON
\* text of an item, or the concatenation of two fingerprints.  The three
\* never coincide as strings: a JSON text does not read "empty", and a
\* concatenation of two fingerprints, hex digits around two colons, is not
\* a JSON text.  Two fingerprints have one known length, so their
\* concatenation determines both and is kept as the pair.
BytesLiteral(b) == [bytes |-> b]
JsonText(item) == [json |-> json_dumps(item)]
Concat(h1, h2) == [cat |-> <<h1, h2>>]

\* the items of the model: JSON objects
MerkleItems ==
    {EmptyDict,
     [status |-> PyStr(TxtPass)],
     [action |-> PyStr(TxtHalt), status |-> PyStr(TxtPass)]}

\* hashes = [dual_hash(json.dumps(item, sort_keys=True)) for item in items]
LeafHashes(list, blake3_available) ==
    [i \in 1..Len(list) |-> dual_hash(JsonText(list[i]), blake3_available)]

\* a level that drops the odd node out instead of duplicating it
Pad_drop(hs) ==
    IF Len(hs) % 2 = 1 THEN SubSeq(hs, 1, Len(hs) - 1) ELSE hs

\* if len(hashes) % 2: hashes.append(hashes[-1])
Pad(hs) ==
    IF Len(hs) % 2 = 1 THEN Append(hs, hs[Len(hs)]) ELSE hs

\* a combination that forgets which fingerprint came first
Combine_unordered(h1, h2, blake3_available) ==
    dual_hash([cat |-> {h1, h2}], blake3_available)

\* dual_hash(hashes[i] + hashes[i + 1])
Combine(h1, h2, blake3_available) ==
    dual_hash(Concat(h1, h2), blake3_available)

\* one pass of the while loop: pad, then combine the pairs
MerkleLevel(hs, blake3_available) ==
    LET padded == Pad(hs)
    IN  [i \in 1..(Len(padded) \div 2) |->
            Combine(padded[2 * i - 1], padded[2 * i], blake3_available)]

RECURSIVE MerkleLoop(_, _)
\* while len(hashes) > 1: ...; return hashes[0]
MerkleLoop(hs, blake3_available) ==
    IF Len(hs) > 1
    THEN MerkleLoop(MerkleLevel(hs, blake3_available), blake3_available)
    ELSE hs[1]

\* merkle(items) as a function of the list
merkle(list, blake3_available) ==
    IF list = <<>>
    THEN dual_hash(BytesLiteral(TxtEmpty), blake3_available)
    ELSE MerkleLoop(LeafHashes(list, blake3_available), blake3_available)

RECURSIVE ItemLists(_)
\* the lists of at most n items, by length
ItemLists(n) ==
    IF n = 0 THEN {<<>>}
    ELSE LET shorter == ItemLists(n - 1)
         IN  shorter \cup
             {Append(l, x) : l \in {m \in shorter : Len(m) = n - 1},
                             x \in MerkleItems}

InitMerkle ==
    /\ items \in ItemLists(MaxItems)
    /\ has_blake3 \in BOOLEAN
    /\ pc = "merkle"
    /\ receipt = EmptyDict
    /\ result = NoResult
    /\ score = 0
    /\ level = "none"
    /\ clock = 0
    /\ stdout = <<>>
    /\ stderr = <<>>
    /\ ledger = <<>>
    /\ emit = NoEmit
    /\ ret = EmptyDict
    /\ caller = "merkle"
    /\ exc = "none"
    /\ stop = NoStop
    /\ shown = NoShown
    /\ callStart = 0
    /\ config = NoConfig
    /\ state = NoState
    /\ hashes = <<>>
    /\ input = [kind |-> "none"]
    /\ history = <<>>
    /\ groups = <<>>
    /\ returned = NoReturn

merklefixed == <<callvars0, iovars, emit, ret, ctlvars, config, state, items,
                 input, history, groups>>

\* if not items: return dual_hash(b"empty")
merkle_empty ==
    /\ pc = "merkle"
    /\ items = <<>>
    /\ returned' = dual_hash(BytesLiteral(TxtEmpty), has_blake3)
    /\ pc' = "merkle_done"
    /\ UNCHANGED <<merklefixed, hashes>>

\* the item hashes
merkle_leaves ==
    /\ pc = "merkle"
    /\ items # <<>>
    /\ hashes' = LeafHashes(items, has_blake3)
    /\ pc' = "merkle_loop"
    /\ UNCHANGED <<merklefixed, returned>>

\* one pass of the while loop
merkle_level ==
    /\ pc = "merkle_loop"
    /\ Len(hashes) > 1
    /\ hashes' = MerkleLevel(hashes, has_blake3)
    /\ UNCHANGED <<merklefixed, pc, returned>>

\* return hashes[0]
merkle_return ==
    /\ pc = "merkle_loop"
    /\ Len(hashes) <= 1
    /\ returned' = hashes[1]
    /\ pc' = "merkle_done"
    /\ UNCHANGED <<merklefixed, hashes>>

NextMerkle == merkle_empty \/ merkle_leaves \/ merkle_level \/ merkle_return

SpecMerkle == InitMerkle /\ [][NextMerkle]_vars

\* merkle is one call on one thread: a step that can be taken is taken
SpecMerkleLive == SpecMerkle /\ WF_vars(NextMerkle)

-----------------------------------------------------------------------------
(* Fingerprint text, src/src/core.py *)

\* code points of the strings of the model: A, e-acute, the euro sign, a
\* lone high surrogate and an emoji
CodePoints == {65, 233, 8364, 55296, 128512}

\* byte values of the byte strings of the model
ByteValues == {0, 65, 195, 169, 255}

\* the UTF-8 bytes of one code point; a surrogate has none
EncodeCodePoint(c) ==
    IF c < 128 THEN <<c>>
    ELSE IF c < 2048 THEN <<192 + (c \div 64), 128 + (c % 64)>>
    ELSE IF c < 65536
         THEN <<224 + (c \div 4096), 128 + ((c \div 64) % 64),
                128 + (c % 64)>>
    ELSE <<240 + (c \div 262144), 128 + ((c \div 4096) % 64),
           128 + ((c \div 64) % 64), 128 + (c % 64)>>

IsSurrogate(c) == c >= 55296 /\ c <= 57343

RECURSIVE EncodeAll(_)
EncodeAll(cps) ==
    IF cps = <<>> THEN <<>>
    ELSE EncodeCodePoint(Head(cps)) \o EncodeAll(Tail(cps))

\* data.encode('utf-8'): the bytes, or UnicodeEncodeError
utf8_encode(cps) ==
    IF \E i \in 1..Len(cps) : IsSurrogate(cps[i])
    THEN [exc |-> "UnicodeEncodeError", bytes |-> <<>>]
    ELSE [exc |-> "none", bytes |-> EncodeAll(cps)]

\* digest_size of hashlib.sha256 and of blake3, in bytes
DigestSize == 32

RECURSIVE WeightedSum(_, _)
WeightedSum(bytes, j) ==
    IF bytes = <<>> THEN 0
    ELSE (Len(bytes) + j) * (Head(bytes) + 1) + WeightedSum(Tail(bytes), j)

\* the DigestSize bytes of a digest; the value of each byte stands for the
\* one the algorithm computes: a function of the algorithm and the input
DigestBytes(digest) ==
    [j \in 1..DigestSize |->
        ((IF digest[1] = "sha256" THEN 7 ELSE 11) * j
             + WeightedSum(digest[2], j)) % 256]

HexDigits_upper ==
    <<"0", "1", "2", "3", "4", "5", "6", "7", "8", "9",
      "A", "B", "C", "D", "E", "F">>

HexDigits ==
    <<"0", "1", "2", "3", "4", "5", "6", "7", "8", "9",
      "a", "b", "c", "d", "e", "f">>

\* .hexdigest(): two hex digits for each byte of the digest
hexdigest(digest) ==
    LET bytes == DigestBytes(digest)
    IN  [k \in 1..(2 * DigestSize) |->
            IF k % 2 = 1
            THEN HexDigits[(bytes[(k + 1) \div 2] \div 16) + 1]
            ELSE HexDigits[(bytes[k \div 2] % 16) + 1]]

\* f"{sha256_hash}:{blake3_hash}"
FormatHash(h) == hexdigest(h.sha256) \o <<":">> \o hexdigest(h.blake3)

\* dual_hash(data) for a bytes or a str input: the text, or the exception
\* of the encoding
DualHashText(data, blake3_available) ==
    LET enc == IF data.kind = "str" THEN utf8_encode(data.v)
               ELSE [exc |-> "none", bytes |-> data.v]
    IN  IF enc.exc # "none" THEN [exc |-> enc.exc, text |-> <<>>]
        ELSE [exc |-> "none",
              text |-> FormatHash(dual_hash(enc.bytes, blake3_available))]

RECURSIVE SeqsOver(_, _)
\* the sequences over S of length at most n
SeqsOver(S, n) ==
    IF n = 0 THEN {<<>>}
    ELSE LET shorter == SeqsOver(S, n - 1)
         IN  shorter \cup
             {Append(q, x) : q \in {m \in shorter : Len(m) = n - 1},
                             x \in S}

\* how many times the caller hashes the same input
HashCalls == 2

InitHash ==
    /\ \/ \E v \in SeqsOver(ByteValues, MaxInput) :
              input = [kind |-> "bytes", v |-> v]
       \/ \E v \in SeqsOver(CodePoints, MaxInput) :
              input = [kind |-> "str", v |-> v]
    /\ has_blake3 \in BOOLEAN
    /\ pc = "dual_hash"
    /\ receipt = EmptyDict
    /\ result = NoResult
    /\ score = 0
    /\ level = "none"
    /\ clock = 0
    /\ stdout = <<>>
    /\ stderr = <<>>
    /\ ledger = <<>>
    /\ emit = NoEmit
    /\ ret = EmptyDict
    /\ caller = "dual_hash"
    /\ exc = "none"
    /\ stop = NoStop
    /\ shown = NoShown
    /\ callStart = 0
    /\ config = NoConfig
    /\ state = NoState
    /\ items = <<>>
    /\ hashes = <<>>
    /\ history = <<>>
    /\ groups = <<>>
    /\ returned = NoReturn

\* one call of dual_hash(input); hashes keeps what the calls returned
dual_hash_call ==
    /\ pc = "dual_hash"
    /\ Len(hashes) < HashCalls
    /\ \E out \in {DualHashText(input, has_blake3)} :
           IF out.exc # "none"
           THEN /\ exc' = out.exc
                /\ pc' = "hash_raised"
                /\ UNCHANGED <<hashes, returned>>
           ELSE /\ hashes' = Append(hashes, out.text)
                /\ returned' = [kind |-> "str", s |-> out.text]
                /\ UNCHANGED <<exc, pc>>
    /\ UNCHANGED <<callvars0, iovars, emit, ret, caller, stop, shown,
                   callStart, config, state, items, input, history, groups>>

NextHash == dual_hash_call

SpecHash == InitHash /\ [][NextHash]_vars

-----------------------------------------------------------------------------
(* Detectors, src/src/trust_score.py, and their emitters, src/src/core.py *)

TxtTrustScore ==
    <<"t", "r", "u", "s", "t", "_", "s", "c", "o", "r", "e">>
TxtDeviation == <<"d", "e", "v", "i", "a", "t", "i", "o", "n">>
TxtAlert == <<"a", "l", "e", "r", "t">>
TxtBias == <<"b", "i", "a", "s">>

\* if len(historical_scores) < 10
MIN_HISTORY == 10

\* ANOMALY_SIGMA = 2.0
ANOMALY_SIGMA == 2

\* BIAS_THRESHOLD = 0.005, in 1/Scale
BIAS_THRESHOLD == 50

RECURSIVE Sum(_)
Sum(q) == IF q = <<>> THEN 0 ELSE Head(q) + Sum(Tail(q))

RECURSIVE SumSq(_)
SumSq(q) == IF q = <<>> THEN 0 ELSE Head(q) * Head(q) + SumSq(Tail(q))

\* a detector that looks at histories one entry short
HasEnoughHistory_short(h) == Len(h) >= MIN_HISTORY - 1

\* not (len(historical_scores) < 10)
HasEnoughHistory(h) == Len(h) >= MIN_HISTORY

\* n * (n - 1) * variance: zero exactly when statistics.stdev is zero
ScaledVariance(h) == Len(h) * SumSq(h) - Sum(h) * Sum(h)

\* abs(score - mean) / stdev > ANOMALY_SIGMA, with mean = S / n and
\* stdev^2 = (n * Q - S^2) / (n * (n - 1)), cleared of denominators
ZExceeds(s, h) ==
    (Len(h) * s - Sum(h)) * (Len(h) * s - Sum(h)) * (Len(h) - 1)
        > ANOMALY_SIGMA * ANOMALY_SIGMA * Len(h) * ScaledVariance(h)

\* statistics.mean(historical_scores), in 1/Scale
MeanOf(h) == (Sum(h) * Scale) \div Len(h)

PyFalse == [kind |-> "bool", b |-> FALSE]
PyTrue == [kind |-> "bool", b |-> TRUE]

\* the scores of the histories and the scores tested against them
HistoryScores == {0, 50, 52, 100}
AnomalyScores == {0, 50, 51, 55, 100}

\* histories of no entry, of one entry too few and of enough entries, of
\* at most two different scores
Histories ==
    {[i \in 1..n |-> IF i <= k THEN a ELSE b] :
        n \in {0} \cup ((MIN_HISTORY - 1)..MaxHistory),
        k \in 0..MaxHistory, a \in HistoryScores, b \in HistoryScores}

InitAnomaly ==
    /\ history \in Histories
    /\ score \in AnomalyScores
    /\ has_blake3 \in BOOLEAN
    /\ pc = "detect"
    /\ receipt = EmptyDict
    /\ result = NoResult
    /\ level = "none"
    /\ clock = 0
    /\ stdout = <<>>
    /\ stderr = <<>>
    /\ ledger = <<>>
    /\ emit = NoEmit
    /\ ret = EmptyDict
    /\ caller = "detect_trust_anomaly"
    /\ exc = "none"
    /\ stop = NoStop
    /\ shown = NoShown
    /\ callStart = 0
    /\ config = NoConfig
    /\ state = NoState
    /\ items = <<>>
    /\ hashes = <<>>
    /\ input = [kind |-> "none"]
    /\ groups = <<>>
    /\ returned = NoReturn

detectfixed == <<callvars0, iovars, ret, ctlvars, config, state, items,
                 hashes, input, history, groups>>

\* detect_trust_anomaly up to its return or its call of emit_anomaly
detect_trust_anomaly ==
    /\ pc = "detect"
    /\ IF ~HasEnoughHistory(history) THEN
           /\ returned' = PyFalse
           /\ pc' = "detect_done"
           /\ emit' = emit
       ELSE IF ScaledVariance(history) = 0 THEN
           /\ returned' = PyFalse
           /\ pc' = "detect_done"
           /\ emit' = emit
       ELSE IF ZExceeds(score, history) THEN
           /\ emit' = NewEmit(TxtAnomaly,
                              AnomalyPayload(TxtTrustScore, MeanOf(history),
                                             score * Scale, TxtDeviation,
                                             TxtAlert),
                              "detect_return")
           /\ pc' = "emit_receipt"
           /\ returned' = returned
       ELSE
           /\ returned' = PyFalse
           /\ pc' = "detect_done"
           /\ emit' = emit
    /\ UNCHANGED detectfixed

\* return is_anomaly after emit_anomaly
detect_return ==
    /\ pc = "detect_return"
    /\ returned' = PyTrue
    /\ pc' = "detect_done"
    /\ UNCHANGED <<detectfixed, emit>>

NextAnomaly ==
    \/ detect_trust_anomaly
    \/ emit_receipt_print
    \/ emit_receipt_append
    \/ emit_receipt_append_failed
    \/ detect_return

SpecAnomaly == InitAnomaly /\ [][NextAnomaly]_vars

\* the domain names, in the order the caller inserted them
GroupNames == <<"a", "b", "c", "d", "e">>

\* the score lists of a domain
GroupScores == {<<>>, <<50>>, <<50, 51>>, <<100>>, <<0>>}

\* the domains with a mean: the non-empty ones, in insertion order
MeanDomains(by_domain) ==
    LET HasMean(k) == k \in DOMAIN by_domain /\ by_domain[k] # <<>>
    IN  SelectSeq(GroupNames, HasMean)

\* statistics.mean(a) <= statistics.mean(b), cleared of denominators
MeanLeq(a, b) == Sum(a) * Len(b) <= Sum(b) * Len(a)

\* (max_mean - min_mean) / 100.0 as a fraction
Disparity(by_domain) ==
    LET hi == CHOOSE k \in DOMAIN by_domain :
                  /\ by_domain[k] # <<>>
                  /\ \A j \in DOMAIN by_domain :
                         by_domain[j] # <<>> =>
                             MeanLeq(by_domain[j], by_domain[k])
        lo == CHOOSE k \in DOMAIN by_domain :
                  /\ by_domain[k] # <<>>
                  /\ \A j \in DOMAIN by_domain :
                         by_domain[j] # <<>> =>
                             MeanLeq(by_domain[k], by_domain[j])
    IN  [num |-> Sum(by_domain[hi]) * Len(by_domain[lo])
                     - Sum(by_domain[lo]) * Len(by_domain[hi]),
         den |-> Len(by_domain[hi]) * Len(by_domain[lo]) * 100]

\* the fraction as a float, in 1/Scale
FloatOf(fr) == (fr.num * Scale) \div fr.den

\* a detector that reports only above the threshold
BiasExceeds_strict(fr) == fr.num * Scale > BIAS_THRESHOLD * fr.den

\* disparity >= BIAS_THRESHOLD
BiasExceeds(fr) == fr.num * Scale >= BIAS_THRESHOLD * fr.den

\* the payload emit_bias hands to emit_receipt
BiasPayload(group_list, disparity, threshold, mitigation_action) ==
    [tenant_id |-> PyStr(TxtDefault),
     groups |-> PyList([i \in 1..Len(group_list) |->
                           PyStr(<<group_list[i]>>)]),
     disparity |-> PyFloat(disparity),
     threshold |-> PyFloat(threshold),
     mitigation_action |-> PyStr(mitigation_action)]

InitBias ==
    /\ \E D \in SUBSET {GroupNames[i] : i \in 1..MaxGroups} :
           groups \in [D -> GroupScores]
    /\ has_blake3 \in BOOLEAN
    /\ pc = "bias"
    /\ receipt = EmptyDict
    /\ result = NoResult
    /\ score = 0
    /\ level = "none"
    /\ clock = 0
    /\ stdout = <<>>
    /\ stderr = <<>>
    /\ ledger = <<>>
    /\ emit = NoEmit
    /\ ret = EmptyDict
    /\ caller = "check_trust_bias"
    /\ exc = "none"
    /\ stop = NoStop
    /\ shown = NoShown
    /\ callStart = 0
    /\ config = NoConfig
    /\ state = NoState
    /\ items = <<>>
    /\ hashes = <<>>
    /\ input = [kind |-> "none"]
    /\ history = <<>>
    /\ returned = NoReturn

\* check_trust_bias up to its return or its call of emit_bias
check_trust_bias ==
    /\ pc = "bias"
    /\ IF Cardinality(DOMAIN groups) < 2 THEN
           /\ returned' = PyFloat(0)
           /\ pc' = "bias_done"
           /\ emit' = emit
       ELSE IF Len(MeanDomains(groups)) < 2 THEN
           /\ returned' = PyFloat(0)
           /\ pc' = "bias_done"
           /\ emit' = emit
       ELSE \E fr \in {Disparity(groups)} :
           IF BiasExceeds(fr) THEN
               /\ emit' = NewEmit(TxtBias,
                                  BiasPayload(MeanDomains(groups),
                                              FloatOf(fr), BIAS_THRESHOLD,
                                              TxtAlert),
                                  "bias_return")
               /\ pc' = "emit_receipt"
               /\ returned' = returned
           ELSE
               /\ returned' = PyFloat(FloatOf(fr))
               /\ pc' = "bias_done"
               /\ emit' = emit
    /\ UNCHANGED detectfixed

\* return disparity after emit_bias
bias_return ==
    /\ pc = "bias_return"
    /\ returned' = emit.data.disparity
    /\ pc' = "bias_done"
    /\ UNCHANGED <<detectfixed, emit>>

NextBias ==
    \/ check_trust_bias
    \/ emit_receipt_print
    \/ emit_receipt_append
    \/ emit_receipt_append_failed
    \/ bias_return

SpecBias == InitBias /\ [][NextBias]_vars

-----------------------------------------------------------------------------
(* Ingestion: src/src/ingest.py, cmd_batch of src/cli.py *)

\* the characters line.strip() removes from both ends
StripChars == {" ", "\t", "\n", "\r", "\f"}

RECURSIVE lstrip(_)
lstrip(s) ==
    IF s # <<>> /\ Head(s) \in StripChars THEN lstrip(Tail(s)) ELSE s

RECURSIVE rstrip(_)
rstrip(s) ==
    IF s # <<>> /\ s[Len(s)] \in StripChars
    THEN rstrip(SubSeq(s, 1, Len(s) - 1)) ELSE s

\* line.strip()
strip(s) == rstrip(lstrip(s))

\* the whitespace json skips between tokens; a form feed is not one
JsonWhitespace == {" ", "\t", "\n", "\r"}

RECURSIVE SkipWs(_)
SkipWs(s) ==
    IF s # <<>> /\ Head(s) \in JsonWhitespace THEN SkipWs(Tail(s)) ELSE s

\* the characters below 0x20 a strict JSON string may not hold
ControlChars == {"\t", "\n", "\r", "\f"}

HasPrefix(s, p) == Len(s) >= Len(p) /\ SubSeq(s, 1, Len(p)) = p

RECURSIVE DigitPrefix(_)
\* the longest run of digits s starts with
DigitPrefix(s) ==
    IF s # <<>> /\ Head(s) \in Digits
    THEN <<Head(s)>> \o DigitPrefix(Tail(s)) ELSE <<>>

RECURSIVE Join(_)
\* the str the characters spell, as a key of a dict
Join(chars) == IF chars = <<>> THEN "" ELSE Head(chars) \o Join(Tail(chars))

\* the outcome of scanning one value: the value and the text after it, or
\* the message of the JSONDecodeError
Parsed(v, rest) == [ok |-> TRUE, v |-> v, rest |-> rest, msg |-> "none"]
ParseError(msg) == [ok |-> FALSE, v |-> PyNone, rest |-> <<>>, msg |-> msg]

\* the character an escape stands for, "" for an escape json rejects;
\* \b and \u are not in the texts of the model
Unescaped(c) ==
    CASE c \in {"\"", "\\", "/"} -> c
      [] c = "n" -> "\n"
      [] c = "r" -> "\r"
      [] c = "t" -> "\t"
      [] c = "f" -> "\f"
      [] OTHER -> ""

RECURSIVE ScanString(_, _)
\* py_scanstring from the character after the opening quote
ScanString(s, acc) ==
    IF s = <<>> THEN ParseError("Unterminated string starting at")
    ELSE IF Head(s) = "\"" THEN Parsed(PyStr(acc), Tail(s))
    ELSE IF Head(s) \in ControlChars
    THEN ParseError("Invalid control character at")
    ELSE IF Head(s) # "\\" THEN ScanString(Tail(s), Append(acc, Head(s)))
    ELSE IF Len(s) < 2 THEN ParseError("Unterminated string starting at")
    ELSE IF Unescaped(s[2]) = "" THEN ParseError("Invalid \\escape")
    ELSE ScanString(SubSeq(s, 3, Len(s)), Append(acc, Unescaped(s[2])))

\* a fraction's digits in 1/Scale units
FracVal(digs) ==
    DecimalVal(SubSeq(digs \o <<"0", "0", "0", "0">>, 1, 4))

\* NUMBER_RE: -?(0|[1-9]\d*)(\.\d+)?; exponents are not in the texts of
\* the model
ParseNumber(s) ==
    LET neg == Head(s) = "-"
        body == IF neg THEN Tail(s) ELSE s
        int == IF body # <<>> /\ Head(body) = "0" THEN <<"0">>
               ELSE DigitPrefix(body)
        after == SubSeq(body, Len(int) + 1, Len(body))
        frac == IF Len(after) >= 2 /\ after[1] = "." /\ after[2] \in Digits
                THEN DigitPrefix(Tail(after)) ELSE <<>>
        sign == IF neg THEN 0 - 1 ELSE 1
    IN  IF int = <<>> THEN ParseError("Expecting value")
        ELSE IF frac = <<>>
        THEN Parsed(PyInt(sign * DecimalVal(int)), after)
        ELSE Parsed(PyFloat(sign * (DecimalVal(int) * Scale + FracVal(frac))),
                    SubSeq(after, Len(frac) + 2, Len(after)))

RECURSIVE ParseValue(_)
RECURSIVE ParseMembers(_, _)
RECURSIVE ParseElements(_, _)

\* JSONObject after the first key's position: "key" : value, then , or }
ParseMembers(s, d) ==
    IF s = <<>> \/ Head(s) # "\""
    THEN ParseError("Expecting property name enclosed in double quotes")
    ELSE LET k == ScanString(Tail(s), <<>>)
             s1 == SkipWs(k.rest)
             val == ParseValue(SkipWs(Tail(s1)))
             d1 == (Join(k.v.s) :> val.v) @@ d
             s2 == SkipWs(val.rest)
         IN  IF ~k.ok THEN k
             ELSE IF s1 = <<>> \/ Head(s1) # ":"
             THEN ParseError("Expecting ':' delimiter")
             ELSE IF ~val.ok THEN val
             ELSE IF s2 # <<>> /\ Head(s2) = "}"
             THEN Parsed(PyDict(d1), Tail(s2))
             ELSE IF s2 = <<>> \/ Head(s2) # ","
             THEN ParseError("Expecting ',' delimiter")
             ELSE ParseMembers(SkipWs(Tail(s2)), d1)

\* JSONArray after the first element's position: value, then , or ]
ParseElements(s, acc) ==
    LET val == ParseValue(s)
        s2 == SkipWs(val.rest)
    IN  IF ~val.ok THEN val
        ELSE IF s2 # <<>> /\ Head(s2) = "]"
        THEN Parsed(PyList(Append(acc, val.v)), Tail(s2))
        ELSE IF s2 = <<>> \/ Head(s2) # ","
        THEN ParseError("Expecting ',' delimiter")
        ELSE ParseElements(SkipWs(Tail(s2)), Append(acc, val.v))

\* scan_once: the value the text starts with
ParseValue(s) ==
    IF s = <<>> THEN ParseError("Expecting value")
    ELSE IF Head(s) = "\"" THEN ScanString(Tail(s), <<>>)
    ELSE IF Head(s) = "{"
    THEN IF HasPrefix(SkipWs(Tail(s)), <<"}">>)
         THEN Parsed(PyDict(EmptyDict), Tail(SkipWs(Tail(s))))
         ELSE ParseMembers(SkipWs(Tail(s)), EmptyDict)
    ELSE IF Head(s) = "["
    THEN IF HasPrefix(SkipWs(Tail(s)), <<"]">>)
         THEN Parsed(PyList(<<>>), Tail(SkipWs(Tail(s))))
         ELSE ParseElements(SkipWs(Tail(s)), <<>>)
    ELSE IF HasPrefix(s, <<"n", "u", "l", "l">>)
    THEN Parsed(PyNone, SubSeq(s, 5, Len(s)))
    ELSE IF HasPrefix(s, <<"t", "r", "u", "e">>)
    THEN Parsed(PyBool(TRUE), SubSeq(s, 5, Len(s)))
    ELSE IF HasPrefix(s, <<"f", "a", "l", "s", "e">>)
    THEN Parsed(PyBool(FALSE), SubSeq(s, 6, Len(s)))
    ELSE IF Head(s) \in Digits \cup {"-"} THEN ParseNumber(s)
    ELSE ParseError("Expecting value")

\* json.loads(s): the value, or the JSONDecodeError; text after the value
\* other than whitespace is "Extra data"
json_loads(s) ==
    LET r == ParseValue(SkipWs(s))
    IN  IF ~r.ok THEN [exc |-> "JSONDecodeError", msg |-> r.msg, v |-> PyNone]
        ELSE IF SkipWs(r.rest) # <<>>
        THEN [exc |-> "JSONDecodeError", msg |-> "Extra data", v |-> PyNone]
        ELSE [exc |-> "none", msg |-> "none", v |-> r.v]

\* a byte of the file that the codec of the text stream cannot decode
BadByte == "\\xff"

\* the lines, without their newline, the files of the model are made of
\* a receipt with no fields
LineEmptyObject ==
    <<"{", "}">>

\* a receipt with an approver
LineApprover ==
    <<"{", "\"", "a", "p", "p", "r", "o", "v", "e", "r", "\"", ":", " ",
      "\"", "A", "\"", "}">>

\* a receipt with three sources, padded and ended by \r
LineSources ==
    <<" ", "{", "\"", "s", "o", "u", "r", "c", "e", "s", "\"", ":", " ",
      "[", "1", ",", " ", "2", ",", " ", "3", "]", "}", "\r">>

\* an empty line
LineEmpty == <<>>

\* a line of whitespace
LineBlank ==
    <<" ", "\t">>

\* JSON that is no object
LineNull ==
    <<"n", "u", "l", "l">>

LineNumber ==
    <<"5">>

LineString ==
    <<"\"", "s", "\"">>

LineArray ==
    <<"[", "1", "]">>

\* text that is no JSON
LineNotJson ==
    <<"n", "o", "t", " ", "j", "s", "o", "n">>

LineIncomplete ==
    <<"{", "\"", "a", "\"", ":">>

\* a receipt followed by a byte that is no UTF-8
LineUndecodable ==
    <<"{", "}", BadByte>>

FileLines ==
    {LineEmptyObject, LineApprover, LineSources, LineEmpty, LineBlank,
     LineNull, LineNumber, LineString, LineArray, LineNotJson,
     LineIncomplete, LineUndecodable}

TxtFileNotFound ==
    <<"f", "i", "l", "e", "_", "n", "o", "t", "_", "f", "o", "u", "n", "d">>

TxtFileReadError ==
    <<"f", "i", "l", "e", "_", "r", "e", "a", "d", "_", "e", "r", "r", "o",
      "r">>

TxtMalformedReceipt ==
    <<"m", "a", "l", "f", "o", "r", "m", "e", "d", "_", "r", "e", "c", "e",
      "i", "p", "t">>

TxtLedgerPath ==
    <<"r", "e", "c", "e", "i", "p", "t", "s", ".", "j", "s", "o", "n", "l">>

\* the receipts file: missing, one that open() refuses, or its lines
Files ==
    {[kind |-> "file", exists |-> FALSE, readable |-> FALSE, lines |-> <<>>],
     [kind |-> "file", exists |-> TRUE, readable |-> FALSE, lines |-> <<>>]}
    \cup
    {[kind |-> "file", exists |-> TRUE, readable |-> TRUE, lines |-> l] :
         l \in SeqsOver(FileLines, MaxFileLines)}

\* the text stream decodes the file a chunk of 8192 bytes at a time with
\* errors='strict'; a file of the model is one chunk
Decodable(lines) ==
    \A i \in 1..Len(lines) : \A j \in 1..Len(lines[i]) : lines[i][j] # BadByte

\* an f-string of ingest.py: its literal text and the values it formats
Formatted(text, value) == [t |-> "fstr", text |-> text, value |-> value]

\* the payload emit_error hands to emit_receipt("error", ...)
ErrorPayload(error_type, error_message, context) ==
    [tenant_id |-> PyStr(TxtDefault),
     error_type |-> PyStr(error_type),
     error_message |-> error_message,
     context |-> PyDict(context)]

\* stoprule_malformed_receipt(line_num, str(e)): the payload of its record
MalformedPayload(line_num, error) ==
    ErrorPayload(TxtMalformedReceipt,
                 Formatted("Malformed JSON at line {line_num}: {error}",
                           <<line_num, error>>),
                 [line_number |-> PyInt(line_num),
                  parse_error |-> Formatted("{e}", <<error>>)])

\* the locals of read_receipts and cmd_batch: the number of the line read
\* last, the receipts scored, the three counts and the exit code
NewBatchState ==
    [line_num |-> 0, i |-> 0, green_count |-> 0, yellow_count |-> 0,
     red_count |-> 0, code |-> 0 - 1]

\* compute_trust_score(receipt) on an element of the list: receipt.get of
\* extract_sources raises AttributeError on anything but a dict
ScoreElement(v) ==
    IF v.t # "dict" THEN [exc |-> "AttributeError", score |-> 0]
    ELSE compute_trust_score(v.d)

\* render_compact(score): f"{emoji} {trust_level} ({score}/100)"
render_compact(s) ==
    [emoji |-> select_emoji(s), trust_level |-> get_trust_level(s),
     score |-> IntStr(s)]

InitIngest ==
    /\ input \in Files
    /\ pc = "read_receipts"
    /\ receipt = EmptyDict
    /\ result = NoResult
    /\ score = 0
    /\ level = "none"
    /\ has_blake3 = TRUE
    /\ clock = 0
    /\ stdout = <<>>
    /\ stderr = <<>>
    /\ ledger = <<>>
    /\ emit = NoEmit
    /\ ret = EmptyDict
    /\ caller = "cmd_batch"
    /\ exc = "none"
    /\ stop = NoStop
    /\ shown = NoShown
    /\ callStart = 0
    /\ config = NoConfig
    /\ state = NewBatchState
    /\ items = <<>>
    /\ hashes = <<>>
    /\ history = <<>>
    /\ groups = <<>>
    /\ returned = NoReturn

ingestfixed == <<callvars0, has_blake3, clock, ret, caller, stop, shown,
                 callStart, config, hashes, input, history, groups>>

\* read_receipts: the file is missing; emit the error record
read_receipts_missing ==
    /\ pc = "read_receipts"
    /\ ~input.exists
    /\ emit' = NewEmit(TxtError,
                       ErrorPayload(TxtFileNotFound,
                                    Formatted("Receipts file not found: "
                                                  \o "{filepath}",
                                              <<TxtLedgerPath>>),
                                    [filepath |-> PyStr(TxtLedgerPath)]),
                       "read_failed")
    /\ pc' = "emit_receipt"
    /\ UNCHANGED <<ingestfixed, stdout, stderr, ledger, exc, state, items,
                   returned>>

\* read_receipts: open(path, 'r') raises an OSError; emit the error record
read_receipts_unreadable ==
    /\ pc = "read_receipts"
    /\ input.exists
    /\ ~input.readable
    /\ emit' = NewEmit(TxtError,
                       ErrorPayload(TxtFileReadError,
                                    Formatted("Failed to read receipts "
                                                  \o "file: {e}",
                                              <<"PermissionError">>),
                                    [filepath |-> PyStr(TxtLedgerPath)]),
                       "read_failed")
    /\ pc' = "emit_receipt"
    /\ UNCHANGED <<ingestfixed, stdout, stderr, ledger, exc, state, items,
                   returned>>

\* read_receipts: return [] after the error record of a file not read
read_receipts_failed ==
    /\ pc = "read_failed"
    /\ returned' = PyList(<<>>)
    /\ pc' = "batch"
    /\ UNCHANGED <<ingestfixed, stdout, stderr, ledger, exc, state, items,
                   emit>>

\* read_receipts: open(path, 'r') succeeds
read_receipts_open ==
    /\ pc = "read_receipts"
    /\ input.exists
    /\ input.readable
    /\ pc' = "read_line"
    /\ UNCHANGED <<ingestfixed, stdout, stderr, ledger, exc, state, items,
                   emit, returned>>

\* the first read of the stream decodes the chunk: a byte that is no
\* UTF-8 raises UnicodeDecodeError, a ValueError that neither except
\* clause of read_receipts names and cmd_batch does not catch
read_receipts_undecodable ==
    /\ pc = "read_line"
    /\ state.line_num = 0
    /\ ~Decodable(input.lines)
    /\ exc' = "UnicodeDecodeError"
    /\ pc' = "batch_raised"
    /\ UNCHANGED <<ingestfixed, stdout, stderr, ledger, state, items, emit,
                   returned>>

\* one pass of the for loop: strip the line, skip it if blank, append the
\* value json.loads returns, or call stoprule_malformed_receipt
read_receipts_line ==
    /\ pc = "read_line"
    /\ Decodable(input.lines)
    /\ state.line_num < Len(input.lines)
    /\ state' = [state EXCEPT !.line_num = @ + 1]
    /\ \E line \in {strip(input.lines[state.line_num + 1])} :
           \E parsed \in {json_loads(line)} :
               IF line = <<>>
               THEN /\ pc' = "read_line"
                    /\ UNCHANGED <<items, emit>>
               ELSE IF parsed.exc = "none"
               THEN /\ items' = Append(items, parsed.v)
                    /\ pc' = "read_line"
                    /\ emit' = emit
               ELSE /\ emit' = NewEmit(TxtError,
                                       MalformedPayload(state.line_num + 1,
                                                        parsed.msg),
                                       "read_line")
                    /\ pc' = "emit_receipt"
                    /\ items' = items
    /\ UNCHANGED <<ingestfixed, stdout, stderr, ledger, exc, returned>>

\* read_receipts: the end of the file; return receipts
read_receipts_return ==
    /\ pc = "read_line"
    /\ Decodable(input.lines)
    /\ state.line_num = Len(input.lines)
    /\ returned' = PyList(items)
    /\ pc' = "batch"
    /\ UNCHANGED <<ingestfixed, stdout, stderr, ledger, exc, state, items,
                   emit>>

\* cmd_batch: if not receipts: print to stderr, return 1
cmd_batch_empty ==
    /\ pc = "batch"
    /\ returned.l = <<>>
    /\ stderr' = Append(stderr, "No receipts found in file.")
    /\ state' = [state EXCEPT !.code = 1]
    /\ pc' = "batch_done"
    /\ UNCHANGED <<ingestfixed, stdout, ledger, exc, items, emit, returned>>

\* cmd_batch: one pass of the loop over the receipts; an exception of the
\* scorer leaves cmd_batch
cmd_batch_score ==
    /\ pc = "batch"
    /\ state.i < Len(returned.l)
    /\ \E cs \in {ScoreElement(returned.l[state.i + 1])} :
           IF cs.exc # "none"
           THEN /\ exc' = cs.exc
                /\ pc' = "batch_raised"
                /\ UNCHANGED <<stdout, state>>
           ELSE /\ stdout' = Append(stdout,
                                    [kind |-> "text",
                                     line |-> <<state.i + 1,
                                                render_compact(cs.score)>>])
                /\ state' =
                       [state EXCEPT
                           !.i = @ + 1,
                           !.green_count =
                               IF cs.score >= 85 THEN @ + 1 ELSE @,
                           !.yellow_count =
                               IF cs.score < 85 /\ cs.score >= 60
                               THEN @ + 1 ELSE @,
                           !.red_count =
                               IF cs.score < 60 THEN @ + 1 ELSE @]
                /\ UNCHANGED <<exc, pc>>
    /\ UNCHANGED <<ingestfixed, stderr, ledger, items, emit, returned>>

\* cmd_batch: the summary after the last receipt; return 0
cmd_batch_summary ==
    /\ pc = "batch"
    /\ returned.l # <<>>
    /\ state.i = Len(returned.l)
    /\ LET total == Len(returned.l)
       IN  stdout' = Append(stdout,
                            [kind |-> "text",
                             line |-> <<total,
                                        (state.green_count * 100) \div total,
                                        (state.yellow_count * 100) \div total,
                                        (state.red_count * 100) \div total>>])
    /\ state' = [state EXCEPT !.code = 0]
    /\ pc' = "batch_done"
    /\ UNCHANGED <<ingestfixed, stderr, ledger, exc, items, emit, returned>>

NextIngest ==
    \/ read_receipts_missing
    \/ read_receipts_unreadable
    \/ read_receipts_failed
    \/ read_receipts_open
    \/ read_receipts_undecodable
    \/ read_receipts_line
    \/ read_receipts_return
    \/ emit_receipt_print
    \/ emit_receipt_append
    \/ emit_receipt_append_failed
    \/ cmd_batch_empty
    \/ cmd_batch_score
    \/ cmd_batch_summary

SpecIngest == InitIngest /\ [][NextIngest]_vars

-----------------------------------------------------------------------------
(* Claims about scoring *)

C8_SourceCount(r) ==
    IF "source_count" \in DOMAIN r /\ IsInt(r["source_count"])
    THEN IntOf(r["source_count"])
    ELSE IF "sources" \in DOMAIN r /\ r["sources"].t = "list"
    THEN Len(r["sources"].l)
    ELSE 0

C8_AccountableNonEmpty(r) ==
    /\ "raci" \in DOMAIN r
    /\ r["raci"].t = "dict"
    /\ "accountable" \in DOMAIN r["raci"].d
    /\ Truthy(r["raci"].d["accountable"])

C8_ApproverPresent(r) ==
    \/ "approver" \in DOMAIN r /\ Truthy(r["approver"])
    \/ C8_AccountableNonEmpty(r)

\* the confidence signal in units of 1/Scale, -1 when absent: a number in
\* [0, 1] as it is, a number in (1, 100] as a percentage
C8_Confidence(r) ==
    IF "confidence" \notin DOMAIN r THEN 0 - 1
    ELSE LET c == r["confidence"]
             f == IF c.t = "float" THEN c.f
                  ELSE IF c.t = "int" THEN c.i * Scale
                  ELSE 0 - 1
         IN  IF 0 <= f /\ f <= Scale THEN f
             ELSE IF Scale < f /\ f <= 100 * Scale THEN f \div 100
             ELSE 0 - 1

C8_Flag(r, aliases) ==
    \E k \in aliases : k \in DOMAIN r /\ Truthy(r[k])

C8_Expected(r) ==
    LET n == C8_SourceCount(r)
        S == IF n >= 5 THEN 20 ELSE IF n >= 3 THEN 10 ELSE IF n >= 1 THEN 5
             ELSE 0
        A == IF C8_ApproverPresent(r) THEN 15 ELSE 0
        R == IF C8_ApproverPresent(r) /\ C8_AccountableNonEmpty(r) THEN 10
             ELSE 0
        c == C8_Confidence(r)
        C == IF c >= 9000 THEN 20 ELSE IF c >= 7500 THEN 10
             ELSE IF c >= 5000 THEN 5 ELSE 0
        M == IF C8_Flag(r, {"monte_carlo_validated", "monte_carlo_passed",
                            "simulation_validated"}) THEN 15 ELSE 0
        H == IF C8_Flag(r, {"human_verified", "intervention_receipt",
                            "human_approved"}) THEN 20 ELSE 0
    IN  Min(100, 50 + S + A + R + C + M + H)

WrongTyped(d) ==
    {k \in DOMAIN d :
        \/ k = "confidence" /\ d[k].t \in {"str", "list", "dict"}
        \/ k = "sources" /\ d[k].t # "list"
        \/ k = "raci" /\ d[k].t # "dict"
        \/ k = "payload" /\ d[k].t # "dict"}

Without(d, key) == [k \in DOMAIN d \ {key} |-> d[k]]

\* the receipts obtained by removing one wrongly typed field, at top level
\* or under payload
C9_Repaired(r) ==
    {Without(r, k) : k \in WrongTyped(r)}
    \cup (IF "payload" \in DOMAIN r /\ r["payload"].t = "dict"
          THEN {[r EXCEPT !["payload"] = PyDict(Without(r["payload"].d, k))]
                : k \in WrongTyped(r["payload"].d)}
          ELSE {})

\* C9: a receipt with no recognised field scores 50, and a wrongly typed
\* field is treated as absent: the call returns the score of the receipt
\* with that field removed.
C9_WrongTypeIsAbsent ==
    pc = "scored" =>
        /\ DOMAIN receipt = {} => result = [exc |-> "none", score |-> 50]
        /\ \A q \in C9_Repaired(receipt) : result = compute_trust_score(q)

\* C10: get_trust_level returns GREEN exactly for scores of 85 and more,
\* YELLOW exactly for 60 to 84, RED exactly below 60.
C10_LevelPartition ==
    pc = "levelled" =>
        /\ level \in {"GREEN", "YELLOW", "RED"}
        /\ level = "GREEN" <=> score >= 85
        /\ level = "YELLOW" <=> (60 <= score /\ score <= 84)
        /\ level = "RED" <=> score < 60

\* C10 witness: each level was returned at the edge of its band.
C10_Witness ==
    /\ pc = "levelled"
    /\ \/ score = 85 /\ level = "GREEN"
       \/ score = 60 /\ level = "YELLOW"
       \/ score = 59 /\ level = "RED"

-----------------------------------------------------------------------------
(* Claims about the halt signal and the ledger *)

\* the JSON lines among the entries of the output stream
RECURSIVE JsonLines(_)
JsonLines(out) ==
    IF out = <<>> THEN <<>>
    ELSE IF Head(out).kind = "json"
         THEN <<Head(out).line>> \o JsonLines(Tail(out))
         ELSE JsonLines(Tail(out))

HasPair(line, key, value) ==
    \E j \in 1..Len(line) : line[j][1] = key /\ line[j][2] = value

IsHaltAnomaly(entry) ==
    /\ entry.kind = "json"
    /\ HasPair(entry.line, "receipt_type", PyStr(TxtAnomaly))
    /\ HasPair(entry.line, "classification", PyStr(TxtViolation))
    /\ HasPair(entry.line, "action", PyStr(TxtHalt))

\* C2: whenever StopRule is about to be raised or has been raised, an
\* anomaly record with classification violation and action halt was
\* written earlier in the same call.
C2_AnomalyBeforeStopRule ==
    (pc = "stoprule_raise" \/ exc = "StopRule") =>
        \E i \in (callStart + 1)..Len(stdout) : IsHaltAnomaly(stdout[i])

\* C2 witness: StopRule raised by stoprule_summary_too_long.
C2_Witness ==
    /\ exc = "StopRule"
    /\ pc = "unwind"
    /\ stop.metric = "summary_word_count"

\* C3: a StopRule that is propagating is never caught: the next step takes
\* it, still raised, to the process boundary.
C3_StopRulePropagates ==
    [][(pc = "unwind" /\ exc = "StopRule")
           => (pc' = "exit" /\ exc' = "StopRule")]_vars

\* C4: the ledger is append-only: a step leaves it unchanged or adds one
\* line at its end, and a successful durable write leaves the lines present
\* at the start of the call followed by exactly the new line.
C4_AppendOnly ==
    [][/\ \/ ledger' = ledger
          \/ ledger' = Append(ledger, emit.line)
       /\ (pc = "emit_append" /\ emit'.status = "ok")
              => ledger' = Append(emit.ledger0, emit.line)]_vars

\* C4 witness: a second line was appended after a first.
C4_Witness ==
    /\ emit.status = "ok"
    /\ Len(ledger) = 2
    /\ ledger[2] = emit.line

RECURSIVE IsSubseq(_, _)
IsSubseq(a, b) ==
    IF a = <<>> THEN TRUE
    ELSE IF b = <<>> THEN FALSE
    ELSE IF Head(a) = Head(b) THEN IsSubseq(Tail(a), Tail(b))
    ELSE IsSubseq(a, Tail(b))

\* C5: the line is on the output stream before the ledger write is tried,
\* the line appended is that same line, and the ledger's lines are an
\* order-preserving subsequence of the record lines of the output stream.
C5_StdoutThenLedger ==
    /\ IsSubseq(ledger, JsonLines(stdout))
    /\ pc = "emit_append" =>
           /\ Len(stdout) > 0
           /\ stdout[Len(stdout)] = [kind |-> "json", line |-> emit.line]
           /\ ledger = emit.ledger0
    /\ emit.status = "ok" =>
           /\ Len(ledger) > 0
           /\ ledger[Len(ledger)] = emit.line

\* C5 witness: a record was printed and appended after an earlier record
\* was printed but not appended.
C5_Witness ==
    /\ emit.status = "ok"
    /\ Len(ledger) = 1
    /\ Len(JsonLines(stdout)) = 2

\* C6: after a failed ledger write no IOError/OSError is raised, the line
\* is on the output stream, a warning is on the diagnostic stream, the
\* ledger is as it was when the call began, and the record returned is the
\* record built for the call.
C6_WriteFailureTolerated ==
    emit.status = "failed" =>
        /\ exc \notin {"IOError", "OSError"}
        /\ Len(JsonLines(stdout)) > 0
        /\ JsonLines(stdout)[Len(JsonLines(stdout))] = emit.line
        /\ Len(stderr) > 0
        /\ ledger = emit.ledger0
        /\ ret = Receipt(emit.receipt_type, emit.data, emit.now, has_blake3)

\* C6 witness: a write failed after an earlier record had been appended.
C6_Witness ==
    /\ emit.status = "failed"
    /\ pc = "idle"
    /\ Len(ledger) = 1
    /\ Len(stdout) = 2

\* C7: the returned record has every payload key with the payload's value,
\* the four stamped keys, tenant_id "default" when the payload has none,
\* and as payload_hash the dual hash of the payload's canonical
\* serialization.
C7_RecordContents ==
    emit.status \in {"ok", "failed"} =>
        /\ \A k \in DOMAIN emit.data : ret[k] = emit.data[k]
        /\ {"receipt_type", "ts", "tenant_id", "payload_hash"}
               \subseteq DOMAIN ret
        /\ "tenant_id" \notin DOMAIN emit.data
               => ret["tenant_id"] = PyStr(TxtDefault)
        /\ ret["payload_hash"]
               = dual_hash(json_dumps(emit.data), has_blake3)

-----------------------------------------------------------------------------
(* Claims about the harness, the integrity primitives and the detectors *)

\* C13: for every receipt, once the harness has scored it, the expected
\* level of the reference is the trust level of the computed score, and the
\* reference does not raise.
C13_ExpectedMatchesScored ==
    /\ pc = "compared" => returned = [exc |-> "none", level |-> level]
    /\ pc = "crashed" => result.exc # "none"

\* C14: for every receipt generate_test_receipt can return, processed after
\* any number of receipts that went well, the reference expects the scored
\* level and rendering raises nothing: every counter of the run advances by
\* one, no crash is counted, and the metrics of the run report an accuracy
\* of at least 0.95, a crash count of 0 and a receipt emission of 1.0.
C14_GeneratedReceiptsAgree ==
    pc = "processed" =>
        /\ stop = NoStop
        /\ state.crashes = 0
        /\ state.violations = <<>>
        /\ state.total_scores = state.i + 1
        /\ state.correct_scores = state.total_scores
        /\ state.receipts_processed = state.total_scores
        /\ state.receipts_emitted = state.total_scores
        /\ \A elapsed \in ElapsedSeconds, peak_gb \in PeakGb :
               \E m \in {Metrics(state, elapsed, peak_gb)} :
                   /\ m.trust_score_accuracy.t = "float"
                   /\ m.trust_score_accuracy.f * 100 >= 95 * Scale
                   /\ m.system_crash_count = PyInt(0)
                   /\ m.receipt_emission = PyFloat(Scale)

C14_Witness ==
    /\ pc = "processed"
    /\ state.total_scores = MaxProcessed + 1
    /\ state.correct_scores = MaxProcessed + 1
    /\ Get(receipt, "raci", PyNone) # PyNone
    /\ Get(receipt, "confidence", PyNone) = PyFloat(7499)
    /\ Len(receipt["sources"].l) = 8

\* the records of type simulation_run among the JSON lines of stdout
IsSimulationRun(line) ==
    HasPair(line, "receipt_type", PyStr(TxtSimulationRun))

\* C11: run_scenario never raises to its caller, and when it returns, the
\* last record it emitted is the only simulation_run record and carries the
\* success, the violations and the metrics of the SimResult it returns.
C11_OneSimulationRunNeverRaises ==
    /\ pc # "sim_raised"
    /\ pc = "sim_done" =>
           \E lines \in {JsonLines(stdout)} :
               /\ Len(lines) >= 1
               /\ \A j \in 1..Len(lines) :
                      IsSimulationRun(lines[j]) <=> j = Len(lines)
               /\ HasPair(lines[Len(lines)], "success",
                          PyBool(returned.success))
               /\ HasPair(lines[Len(lines)], "violations",
                          PyList(returned.violations))
               /\ HasPair(lines[Len(lines)], "metrics",
                          PyDict(returned.metrics))
               /\ HasPair(lines[Len(lines)], "scenario_name",
                          PyStr(returned.scenario_name))

\* a step in which the except clause of one candidate runs
CandidateCrashes ==
    /\ pc = "sim_candidate"
    /\ state'.crashes # state.crashes

\* C12: a crash while scoring or rendering one candidate adds exactly one
\* to the crash counter and exactly one message, naming the cycle, to the
\* violations, raises nothing, and leaves the loop at the next candidate
\* of the same cycle (the end of the cycle after the last candidate); a run
\* that no early termination stops executes every cycle, and every
\* candidate of every cycle exactly once.
C12_CrashDoesNotAbort ==
    /\ [][CandidateCrashes =>
              /\ state'.crashes = state.crashes + 1
              /\ Len(state'.violations) = Len(state.violations) + 1
              /\ state'.violations[Len(state'.violations)] =
                     CrashMessage(state.cycle, TxtFault)
              /\ SubSeq(state'.violations, 1, Len(state.violations)) =
                     state.violations
              /\ state'.cycle = state.cycle
              /\ state'.i = state.i + 1
              /\ state'.receipts_emitted = state.receipts_emitted
              /\ exc' = "none"
              /\ pc' = IF state.i + 1 < state.receipts_per_cycle
                       THEN "sim_candidate" ELSE "sim_cycle_end"]_vars
    /\ [](/\ pc = "sim_done"
          /\ config.early_termination = "none"
          /\ config.n_cycles > 0
          /\ state.sim_params.volume_multiplier.t = "float"
          => /\ state.cycle + 1 = config.n_cycles
             /\ state.receipts_emitted + state.crashes
                    + state.errors_emitted =
                    config.n_cycles * state.receipts_per_cycle)

\* C12 witness: a run of MaxCycles cycles returned after a crash in its
\* first cycle, having emitted receipts as well.
C12_Witness ==
    /\ pc = "sim_done"
    /\ config.n_cycles = MaxCycles
    /\ state.cycle + 1 = MaxCycles
    /\ state.crashes >= 1
    /\ state.receipts_emitted >= 1
    /\ \E j \in 1..Len(state.violations) :
           state.violations[j] = CrashMessage(0, TxtFault)

\* the records of type error or anomaly among the lines of stdout
FailureRecords(out) ==
    {j \in 1..Len(out) :
        /\ out[j].kind = "json"
        /\ \/ HasPair(out[j].line, "receipt_type", PyStr(TxtError))
           \/ HasPair(out[j].line, "receipt_type", PyStr(TxtAnomaly))}

\* C15: every failure the harness or emit_receipt has caught (a malformed
\* candidate, a crash of a candidate or of a cycle, a failed ledger write)
\* has an error or anomaly record of its own on stdout.
C15_CaughtFailureEmitsRecord ==
    pc # "run_scenario" =>
        state.errors_emitted + state.crashes + Len(stderr)
            <= Cardinality(FailureRecords(stdout))

RECURSIVE C16_Root(_, _)
\* the root over a row of nodes as the construction is described: node i
\* of the next row is the dual hash of nodes 2i-1 and 2i concatenated, the
\* last node standing in for a missing node 2i
C16_Root(nodes, blake3_available) ==
    IF Len(nodes) = 1 THEN nodes[1]
    ELSE C16_Root(
             [i \in 1..((Len(nodes) + 1) \div 2) |->
                 dual_hash(Concat(nodes[2 * i - 1],
                                  IF 2 * i <= Len(nodes) THEN nodes[2 * i]
                                  ELSE nodes[Len(nodes)]),
                           blake3_available)],
             blake3_available)

\* C16: merkle returns a function of the ordered list: the dual hash of the
\* literal "empty" for the empty list, which is not the root of [{}]; the
\* dual hash of the item's JSON text for a one-item list; otherwise the
\* root built level by level with the last node duplicated on odd levels.
\* Every pass of the loop leaves fewer nodes, at least one, and the call
\* returns.
C16_MerkleConstruction ==
    /\ [](pc = "merkle_done" =>
             /\ returned = merkle(items, has_blake3)
             /\ items = <<>> =>
                    /\ returned = dual_hash(BytesLiteral(TxtEmpty),
                                            has_blake3)
                    /\ returned # merkle(<<EmptyDict>>, has_blake3)
             /\ Len(items) = 1 =>
                    returned = dual_hash(JsonText(items[1]), has_blake3)
             /\ items # <<>> =>
                    returned = C16_Root(LeafHashes(items, has_blake3),
                                        has_blake3))
    /\ [][pc = "merkle_loop" /\ pc' = "merkle_loop" =>
              /\ Len(hashes') = (Len(hashes) + 1) \div 2
              /\ Len(hashes') < Len(hashes)
              /\ Len(hashes') >= 1]_vars
    /\ <>(pc = "merkle_done")

\* C16 witness: the root of a list of MaxItems items was returned.
C16_Witness ==
    /\ pc = "merkle_done"
    /\ Len(items) = MaxItems
    /\ items[MaxItems] # items[1]
    /\ returned = hashes[1]

\* C17: a permutation of the items that gives a different sequence gives a
\* different root.
C17_ReorderChangesRoot ==
    pc = "merkle_done" =>
        \A q \in Permutations(1..Len(items)) :
            \E permuted \in {[i \in 1..Len(items) |-> items[q[i]]]} :
                permuted # items =>
                    merkle(permuted, has_blake3) # returned

\* C17 witness: the root of a list of at least three items, not all the
\* same, was returned.
C17_Witness ==
    /\ pc = "merkle_done"
    /\ Len(items) >= 3
    /\ items[1] # items[2]
    /\ items[2] = items[3]

\* the positions of the colons of a text
Colons(text) == {k \in 1..Len(text) : text[k] = ":"}

\* the characters of [0-9a-f]
LowerHex ==
    {"0", "1", "2", "3", "4", "5", "6", "7", "8", "9",
     "a", "b", "c", "d", "e", "f"}

\* a match of [0-9a-f]+
IsLowerHex(text) ==
    /\ text # <<>>
    /\ \A k \in 1..Len(text) : text[k] \in LowerHex

\* what C18 says of a returned text: lowercase hex, one colon, lowercase
\* hex; both slots of the length of a digest in hex; the second slot
\* equal to the first without blake3
C18_WellFormed(text, blake3_available) ==
    /\ Cardinality(Colons(text)) = 1
    /\ \E c \in Colons(text) :
           /\ IsLowerHex(SubSeq(text, 1, c - 1))
           /\ IsLowerHex(SubSeq(text, c + 1, Len(text)))
           /\ c - 1 = 2 * DigestSize
           /\ Len(text) - c = 2 * DigestSize
           /\ ~blake3_available =>
                  SubSeq(text, c + 1, Len(text)) = SubSeq(text, 1, c - 1)

\* every call so far returned a well-formed text, the same text each
\* time, and for a string the text of its UTF-8 bytes
C18_Returned ==
    /\ \A n \in 1..Len(hashes) :
           /\ C18_WellFormed(hashes[n], has_blake3)
           /\ hashes[n] = hashes[1]
    /\ (hashes # <<>> /\ input.kind = "str") =>
           hashes[1] = DualHashText([kind |-> "bytes",
                                     v |-> utf8_encode(input.v).bytes],
                                    has_blake3).text

\* the input is a string with a lone surrogate
C18_Unencodable ==
    /\ input.kind = "str"
    /\ \E i \in 1..Len(input.v) : IsSurrogate(input.v[i])

RECURSIVE C19_SquaredDeviations(_, _, _)
\* the sum over the entries x of (n * x - total)^2, that is n^2 times the
\* sum of the squared deviations from the mean
C19_SquaredDeviations(h, n, total) ==
    IF h = <<>> THEN 0
    ELSE (n * Head(h) - total) * (n * Head(h) - total)
             + C19_SquaredDeviations(Tail(h), n, total)

\* |score - mean| / stdev > 2.0 for the sample standard deviation, with
\* both sides squared and multiplied by n^2 * (n - 1)
C19_MoreThanTwoSigma ==
    (Len(history) * score - Sum(history))
        * (Len(history) * score - Sum(history)) * (Len(history) - 1)
        > 4 * C19_SquaredDeviations(history, Len(history), Sum(history))

C19_ZeroVariance == \A i, j \in 1..Len(history) : history[i] = history[j]

\* an anomaly record about the trust score: a deviation, action alert
C19_IsDeviationAlert(line) ==
    /\ HasPair(line, "receipt_type", PyStr(TxtAnomaly))
    /\ HasPair(line, "metric", PyStr(TxtTrustScore))
    /\ HasPair(line, "classification", PyStr(TxtDeviation))
    /\ HasPair(line, "action", PyStr(TxtAlert))
    /\ HasPair(line, "actual", PyFloat(score * Scale))

\* C19: detect_trust_anomaly returns False for a history of fewer than 10
\* entries and for a history of zero variance, otherwise True exactly when
\* |score - mean| / stdev > 2.0; it has emitted one record, an anomaly
\* with classification deviation and action alert, when it returns True
\* and none when it returns False; it raises nothing.
C19_AnomalyDetection ==
    /\ exc = "none"
    /\ stop = NoStop
    /\ pc = "detect_done" =>
           /\ returned \in {PyTrue, PyFalse}
           /\ (Len(history) < 10 \/ C19_ZeroVariance) => returned = PyFalse
           /\ (Len(history) >= 10 /\ ~C19_ZeroVariance) =>
                  (returned = PyTrue <=> C19_MoreThanTwoSigma)
           /\ returned = PyFalse => stdout = <<>> /\ ledger = <<>>
           /\ returned = PyTrue =>
                  /\ Len(stdout) = 1
                  /\ stdout[1].kind = "json"
                  /\ C19_IsDeviationAlert(stdout[1].line)
                  /\ ledger \in {<<>>, <<stdout[1].line>>}

\* C19 witness: a score more than two sigma from the mean of a history of
\* exactly ten entries was flagged.
C19_Witness ==
    /\ pc = "detect_done"
    /\ returned = PyTrue
    /\ Len(history) = 10
    /\ score = 55

\* the groups with at least one score
C20_NonEmpty == {k \in DOMAIN groups : groups[k] # <<>>}

\* a bias record with mitigation action alert that carries the disparity
\* returned and the threshold
C20_IsBiasAlert(line) ==
    /\ HasPair(line, "receipt_type", PyStr(TxtBias))
    /\ HasPair(line, "mitigation_action", PyStr(TxtAlert))
    /\ HasPair(line, "disparity", returned)
    /\ HasPair(line, "threshold", PyFloat(50))

-----------------------------------------------------------------------------
(* Claims about the payload fallback, the harness run and ingestion *)

\* the receipt with the field key of its payload moved to the top level
MovedToTop(r, key) ==
    (key :> r["payload"].d[key])
        @@ [r EXCEPT !["payload"] = PyDict(Without(r["payload"].d, key))]

\* the payload of r is a mapping that holds key, and r holds none of the
\* keys of others at its top level
OnlyUnderPayload(r, key, others) ==
    /\ "payload" \in DOMAIN r
    /\ r["payload"].t = "dict"
    /\ key \in DOMAIN r["payload"].d
    /\ DOMAIN r \cap others = {}

\* C22: a receipt whose only approver evidence is a non-empty
\* payload.raci.accountable scores what the receipt with that raci mapping
\* at top level scores: both the approver and the RACI bonus.
C22_PayloadRaciCompletes ==
    (/\ pc = "scored"
     /\ OnlyUnderPayload(receipt, "raci", {"raci", "approver"})
     /\ "approver" \notin DOMAIN receipt["payload"].d
     /\ C8_AccountableNonEmpty(receipt["payload"].d))
        => result = compute_trust_score(MovedToTop(receipt, "raci"))

\* a number between 0 and 100
C23_InRange(c) ==
    \/ c.t = "float" /\ 0 <= c.f /\ c.f <= 100 * Scale
    \/ c.t = "int" /\ 0 <= c.i /\ c.i <= 100

\* C23: a numeric confidence between 0 and 100 under payload gives the
\* score the same confidence gives at top level.
C23_ConfidenceAnywhere ==
    (/\ pc = "scored"
     /\ OnlyUnderPayload(receipt, "confidence", {"confidence"})
     /\ C23_InRange(receipt["payload"].d["confidence"]))
        => result = compute_trust_score(MovedToTop(receipt, "confidence"))

C24_Aliases ==
    {"monte_carlo_validated", "monte_carlo_passed", "simulation_validated",
     "human_verified", "intervention_receipt", "human_approved"}

\* C24: each alias of a validation flag, true under payload, gives the
\* score it gives true at top level.
C24_AliasAnywhere ==
    pc = "scored" =>
        \A k \in C24_Aliases :
            (/\ OnlyUnderPayload(receipt, k, C24_Aliases)
             /\ Truthy(receipt["payload"].d[k]))
                => result = compute_trust_score(MovedToTop(receipt, k))

\* the cycles 0, 1, ... n - 1
CyclesUpTo(n) == [k \in 1..n |-> k - 1]

\* C25: the cycles whose body ran are 0, 1, ... in order; a run that the
\* early-termination predicate stopped ends in a state where the predicate
\* holds, a run it did not stop executed all n_cycles cycles; and the
\* cycles_completed of the SimResult is the number of cycles executed, for
\* n_cycles = 0 too.
C25_CyclesCompleted ==
    pc = "sim_done" =>
        /\ state.executed = CyclesUpTo(Len(state.executed))
        /\ state.converged =>
               EarlyTermination(config.early_termination, state)
        /\ ~state.converged => Len(state.executed) = config.n_cycles
        /\ returned.cycles_completed = Len(state.executed)

\* the criterion c = (metric, threshold, comparator) is satisfied by the
\* metrics: the metric is there, the comparator is one of the five and the
\* comparison of the two numbers holds
C26_Satisfied(metrics, c) ==
    /\ c[1] \in DOMAIN metrics
    /\ c[2].t \in {"int", "float"}
    /\ \/ c[3] = ">=" /\ NumOf(metrics[c[1]]) >= NumOf(c[2])
       \/ c[3] = "<=" /\ NumOf(metrics[c[1]]) <= NumOf(c[2])
       \/ c[3] = "==" /\ NumOf(metrics[c[1]]) = NumOf(c[2])
       \/ c[3] = ">" /\ NumOf(metrics[c[1]]) > NumOf(c[2])
       \/ c[3] = "<" /\ NumOf(metrics[c[1]]) < NumOf(c[2])

\* the criteria the metrics do not satisfy, in the order declared
C26_Failing(metrics, criteria) ==
    LET Unsatisfied(c) == ~C26_Satisfied(metrics, c)
    IN  SelectSeq(criteria, Unsatisfied)

\* C26: the violations of a returned SimResult are one message for each
\* criterion the metrics do not satisfy (comparison false, metric missing
\* or comparator unknown), in the order declared and naming its metric,
\* none for a satisfied criterion, followed by the messages recorded with
\* the crashes; success is (violations is empty), which is (every
\* criterion satisfied and no crash recorded).
C26_SuccessIffNoViolation ==
    pc = "sim_done" =>
        LET failing == C26_Failing(returned.metrics, config.success_criteria)
            n == Len(failing)
        IN  /\ Len(returned.violations) = n + Len(state.violations)
            /\ \A k \in 1..n :
                   /\ returned.violations[k].kind \in {"not found", "FAILED"}
                   /\ returned.violations[k].metric = failing[k][1]
            /\ SubSeq(returned.violations, n + 1, Len(returned.violations))
                   = state.violations
            /\ Len(state.violations) = state.crashes
            /\ returned.success <=> returned.violations = <<>>
            /\ returned.success <=> (n = 0 /\ state.crashes = 0)

\* C26 witness: a returned run with a criterion on a metric that is not
\* computed, one with an unknown comparator, and a crash recorded.
C26_Witness ==
    /\ pc = "sim_done"
    /\ config.success_criteria = UnknownCriteria
    /\ state.crashes = 1
    /\ Len(returned.violations) = 3
    /\ ~returned.success

\* the messages of the candidates that crashed
CrashMessages(violations) ==
    {j \in 1..Len(violations) : violations[j].kind = "Crash at cycle"}

\* the messages of the cycles that raised outside a candidate
CycleErrors(violations) ==
    {j \in 1..Len(violations) : violations[j].kind = "Cycle error"}

\* the three counters a candidate ends in
C27_Outcomes(st) == st.errors_emitted + st.receipts_emitted + st.crashes

\* C27: every step that handles a candidate adds one to exactly one of
\* errors_emitted, receipts_emitted and crashes and takes nothing from the
\* others, and a malformed candidate is not scored; in every state of a
\* run receipts_emitted <= receipts_processed, and while no cycle-level
\* error is recorded the three counters add up to the number of candidates
\* generated and crashes is the number of crash messages.
C27_CountersConsistent ==
    /\ [][pc = "sim_candidate" =>
              /\ state'.candidates = state.candidates + 1
              /\ C27_Outcomes(state') = C27_Outcomes(state) + 1
              /\ state'.errors_emitted >= state.errors_emitted
              /\ state'.receipts_emitted >= state.receipts_emitted
              /\ state'.crashes >= state.crashes
              /\ state'.errors_emitted > state.errors_emitted =>
                     /\ state'.receipts_processed = state.receipts_processed
                     /\ state'.total_scores = state.total_scores]_vars
    /\ [](pc # "run_scenario" =>
              /\ state.receipts_emitted <= state.receipts_processed
              /\ CycleErrors(state.violations) = {} =>
                     /\ C27_Outcomes(state) = state.candidates
                     /\ state.crashes =
                            Cardinality(CrashMessages(state.violations)))

\* C27 witness: a run that has counted a malformed candidate, an emitted
\* receipt and a crash, the crash after the receipt was scored.
C27_Witness ==
    /\ pc = "sim_done"
    /\ state.errors_emitted >= 1
    /\ state.receipts_emitted >= 1
    /\ state.crashes = 1
    /\ state.receipts_processed > state.receipts_emitted
    /\ CycleErrors(state.violations) = {}

\* C28: whatever keys the payload holds, the record emit_receipt returns
\* and prints carries the receipt_type it was called with and, as
\* payload_hash, the dual hash it computed of the payload.
C28_StampedMetadataWins ==
    emit.status \in {"ok", "failed"} =>
        /\ ret["receipt_type"] = PyStr(emit.receipt_type)
        /\ ret["payload_hash"]
               = dual_hash(json_dumps(emit.data), has_blake3)
        /\ HasPair(emit.line, "receipt_type", PyStr(emit.receipt_type))

\* C29: dual_hash being collision-free, the root merkle returns for a list
\* is the root of no other list, whatever its length; the root of a list
\* a, b, c is not that of a, b, c, c.
C29_DistinctListsDistinctRoots ==
    pc = "merkle_done" =>
        /\ \A other \in ItemLists(MaxItems) :
               other # items => merkle(other, has_blake3) # returned
        /\ Len(items) = 3 =>
               merkle(Append(items, items[3]), has_blake3) # returned

\* read_receipts has returned its list
ReadReturned == "l" \in DOMAIN returned

\* the lines of the model that are JSON, with the value each spells
C21_WellFormed ==
    {LineEmptyObject, LineApprover, LineSources, LineNull, LineNumber,
     LineString, LineArray}

C21_Value(line) ==
    CASE line = LineEmptyObject -> PyDict(EmptyDict)
      [] line = LineApprover -> PyDict([approver |-> PyStr(<<"A">>)])
      [] line = LineSources ->
             PyDict([sources |-> PyList(<<PyInt(1), PyInt(2), PyInt(3)>>)])
      [] line = LineNull -> PyNone
      [] line = LineNumber -> PyInt(5)
      [] line = LineString -> PyStr(<<"s">>)
      [] line = LineArray -> PyList(<<PyInt(1)>>)

\* the lines that are neither blank nor JSON
C21_Malformed == {LineNotJson, LineIncomplete, LineUndecodable}

RECURSIVE C21_Receipts(_)
\* one value per well-formed line, in file order
C21_Receipts(lines) ==
    IF lines = <<>> THEN <<>>
    ELSE IF Head(lines) \in C21_WellFormed
    THEN <<C21_Value(Head(lines))>> \o C21_Receipts(Tail(lines))
    ELSE C21_Receipts(Tail(lines))

\* the numbers of the malformed lines, in file order
C21_MalformedNumbers(lines) ==
    LET IsMalformed(n) == lines[n] \in C21_Malformed
    IN  SelectSeq([n \in 1..Len(lines) |-> n], IsMalformed)

\* the value of a key in a printed record
C21_Field(line, key) ==
    line[CHOOSE i \in 1..Len(line) : line[i][1] = key][2]

\* the error records printed, in order
C21_ErrorRecords(out) ==
    LET IsErrorRecord(e) ==
            /\ e.kind = "json"
            /\ HasPair(e.line, "receipt_type", PyStr(TxtError))
    IN  SelectSeq(out, IsErrorRecord)

\* C21: read_receipts raises nothing; from a file it can read it returns
\* the values of the well-formed lines in file order and has emitted one
\* malformed_receipt record, naming the line, for each malformed line and
\* no other error record; from a missing or unreadable file it returns the
\* empty list and has emitted exactly one error record.
C21_ReadNeverAborts ==
    /\ pc = "batch_raised" => ReadReturned
    /\ ReadReturned =>
           LET errors == C21_ErrorRecords(stdout)
               numbers == C21_MalformedNumbers(input.lines)
           IN  IF input.exists /\ input.readable
               THEN /\ returned.l = C21_Receipts(input.lines)
                    /\ Len(errors) = Len(numbers)
                    /\ \A k \in 1..Len(errors) :
                           /\ C21_Field(errors[k].line, "error_type")
                                  = PyStr(TxtMalformedReceipt)
                           /\ C21_Field(errors[k].line, "context")
                                  .d["line_number"] = PyInt(numbers[k])
               ELSE /\ returned.l = <<>>
                    /\ Len(errors) = 1
                    /\ C21_Field(errors[1].line, "error_type")
                           \in {PyStr(TxtFileNotFound),
                                PyStr(TxtFileReadError)}

\* C30: every element of the list read_receipts returns is a mapping, and
\* compute_trust_score raises on none of them: cmd_batch scores the whole
\* list.
C30_OnlyObjectsReturned ==
    ReadReturned =>
        /\ \A k \in 1..Len(returned.l) :
               /\ returned.l[k].t = "dict"
               /\ ScoreElement(returned.l[k]).exc = "none"
        /\ pc # "batch_raised"

=============================================================================
